---- MODULE Spec2Model ----
(***************************************************************************)
(* Model of the match engine of the clash-royal bot: game/arena.py,        *)
(* game/match.py, game/player.py, game/card.py, game/visuals.py (the tower *)
(* marker sync of render_arena_emoji) and game/commands/match_cmds.py.     *)
(*                                                                         *)
(* Two specifications share the state:                                     *)
(*   ApiSpec  the synchronous operations of Arena / Match called in any    *)
(*            order on a freshly constructed match;                        *)
(*   Spec     the asyncio tasks: realtime_loop and the cr_play command     *)
(*            (with the AI turn it awaits), interleaved at await points.   *)
(***************************************************************************)
EXTENDS Integers, Sequences, FiniteSets, TLC

\* ------------------------------------------------------------------------
\* Program constants
\* ------------------------------------------------------------------------
Width == 16
Height == 10
P1 == 1
P2 == 2
FlankHp == 1500
KingHp == 3000
StartEnergy == 5
MaxEnergy == 10
EnergyRegen == 1
CooldownTurns == 2
AiTries == 60

\* ------------------------------------------------------------------------
\* Bounds of the model
\* ------------------------------------------------------------------------
MaxUnits == 2
MaxSteps == 2
MaxPlays == 2
MaxOverlap == 1
MaxTurns == 2
MaxTicks == 30
MaxMarch == 11

Rows == 0..(Height - 1)
Cols == 0..(Width - 1)
Owners == {P1, P2}
Slots == {"left", "right", "king"}
Flanks == {"left", "right"}
NoOwner == 0

\* The card table, restricted to the cards the inputs below use.
CardTable ==
  [ knight     |-> [type |-> "troop", cost |-> 3, damage |-> 10, hp |-> 120, speed |-> 1],
    archer     |-> [type |-> "troop", cost |-> 3, damage |-> 8,  hp |-> 60, speed |-> 1],
    giant      |-> [type |-> "troop", cost |-> 5, damage |-> 20, hp |-> 200, speed |-> 1],
    fireball   |-> [type |-> "spell", cost |-> 4, damage |-> 25, hp |-> 50, speed |-> 1],
    valkyrie   |-> [type |-> "troop", cost |-> 4, damage |-> 15, hp |-> 150, speed |-> 1],
    mini_pekka |-> [type |-> "troop", cost |-> 4, damage |-> 30, hp |-> 90, speed |-> 1],
    skeletons  |-> [type |-> "troop", cost |-> 1, damage |-> 5,  hp |-> 20, speed |-> 1],
    sparky     |-> [type |-> "troop", cost |-> 6, damage |-> 50, hp |-> 120, speed |-> 1],
    prince     |-> [type |-> "troop", cost |-> 5, damage |-> 25, hp |-> 120, speed |-> 2] ]

CardNames == DOMAIN CardTable

\* Player.deck of the human (get_player's starter list, as far as CardTable
\* has it) and of the AI (ARENAS[1]["cards"][:5]).
Deck(o) ==
  IF o = P1 THEN {"knight", "archer", "giant", "fireball", "valkyrie", "mini_pekka"}
  ELSE {"knight", "archer", "giant", "fireball", "valkyrie"}

\* ------------------------------------------------------------------------
\* Tiles
\* ------------------------------------------------------------------------
\* A grid cell holds None, a unit dict or a tower marker dict.
NoTile == [type |-> "none"]

\* Card.create_unit: the dict for the grid; id stands for the identity of the
\* Python dict object (two grid cells may reference the same object).
CreateUnit(card, owner, id) ==
  [type |-> CardTable[card].type, owner |-> owner, hp |-> CardTable[card].hp,
   damage |-> CardTable[card].damage, speed |-> CardTable[card].speed, name |-> card,
   id |-> id]

IsUnitTile(t) == t.type # "none" /\ t.type # "tower"
IsTowerTile(t) == t.type = "tower"

\* ------------------------------------------------------------------------
\* Arena
\* ------------------------------------------------------------------------
TowerRow(o, s) ==
  IF o = P1 THEN (IF s = "king" THEN 2 ELSE 1)
  ELSE (IF s = "king" THEN Height - 2 ELSE Height - 3)

TowerCol(o, s) ==
  IF s = "left" THEN 3 ELSE IF s = "right" THEN Width - 4 ELSE Width \div 2

\* The tower records carry no "cells" key.
TowerCells(o, s) == {}

InitTowers ==
  [o \in Owners |->
    [s \in Slots |->
      IF s = "king" THEN [hp |-> KingHp, active |-> FALSE]
      ELSE [hp |-> FlankHp, active |-> TRUE]]]

EmptyRow == [c \in Cols |-> NoTile]
EmptyGrid == [r \in Rows |-> EmptyRow]

InBounds(r, c) == 0 <= r /\ r < Height /\ 0 <= c /\ c < Width

Get(g, r, c) == IF InBounds(r, c) THEN g[r][c] ELSE NoTile

SetCell(g, r, c, v) == [g EXCEPT ![r][c] = v]

TowerMarker(tw, o, s) ==
  [type |-> "tower", owner |-> o, hp |-> tw[o][s].hp, name |-> s]

TowerOrder == << <<P1, "left">>, <<P1, "right">>, <<P1, "king">>,
                 <<P2, "left">>, <<P2, "right">>, <<P2, "king">> >>

RECURSIVE PlaceTowersFrom(_, _, _)
PlaceTowersFrom(i, g, tw) ==
  IF i > Len(TowerOrder) THEN g
  ELSE LET o == TowerOrder[i][1]
           s == TowerOrder[i][2]
       IN PlaceTowersFrom(i + 1,
            IF tw[o][s].hp > 0
            THEN SetCell(g, TowerRow(o, s), TowerCol(o, s), TowerMarker(tw, o, s))
            ELSE g,
            tw)

PlaceTowersOnGrid(g, tw) == PlaceTowersFrom(1, g, tw)

ClearTowerTiles(g) ==
  [r \in Rows |-> [c \in Cols |-> IF IsTowerTile(g[r][c]) THEN NoTile ELSE g[r][c]]]

\* The sync without the clearing pass.
SyncTowerMarkersNoClear(g, tw) == PlaceTowersOnGrid(g, tw)

\* render_arena_emoji: clear every tower tile, then place_towers_on_grid.
SyncTowerMarkers(g, tw) == PlaceTowersOnGrid(ClearTowerTiles(g), tw)

\* An arena value a is [grid, towers].
DamageTowerNoFloor(a, o, s, dmg) ==
  IF a.towers[o][s].hp <= 0 THEN a
  ELSE [a EXCEPT !.towers[o][s].hp = @ - dmg]

DamageTowerNoKing(a, o, s, dmg) ==
  IF a.towers[o][s].hp <= 0 THEN a
  ELSE LET hp == a.towers[o][s].hp - dmg
       IN IF hp <= 0
          THEN [grid |-> SetCell(a.grid, TowerRow(o, s), TowerCol(o, s), NoTile),
                towers |-> [a.towers EXCEPT ![o][s].hp = 0]]
          ELSE [a EXCEPT !.towers[o][s].hp = hp]

DamageTower(a, o, s, dmg) ==
  IF a.towers[o][s].hp <= 0 THEN a
  ELSE LET hp == a.towers[o][s].hp - dmg
       IN IF hp <= 0
          THEN [grid |-> SetCell(a.grid, TowerRow(o, s), TowerCol(o, s), NoTile),
                towers |-> IF s \in Flanks
                           THEN [a.towers EXCEPT ![o][s].hp = 0, ![o]["king"].active = TRUE]
                           ELSE [a.towers EXCEPT ![o][s].hp = 0]]
          ELSE [a EXCEPT !.towers[o][s].hp = hp]

AnyKingDeadP2First(tw) ==
  IF tw[P2]["king"].hp <= 0 THEN P2
  ELSE IF tw[P1]["king"].hp <= 0 THEN P1
  ELSE NoOwner

AnyKingDead(tw) ==
  IF tw[P1]["king"].hp <= 0 THEN P1
  ELSE IF tw[P2]["king"].hp <= 0 THEN P2
  ELSE NoOwner

\* ------------------------------------------------------------------------
\* Match: helpers, placement
\* ------------------------------------------------------------------------
PlayerId(i) == IF i = 0 THEN P1 ELSE P2

OpponentId(o) == IF o = P1 THEN P2 ELSE IF o = P2 THEN P1 ELSE NoOwner

CheckWinSameOwner(tw) == AnyKingDead(tw)

\* The id of the returned player, NoOwner for None.
CheckWin(tw) ==
  LET dead == AnyKingDead(tw)
  IN IF dead = NoOwner THEN NoOwner ELSE OpponentId(dead)

RiverLeft == Width \div 2 - 1
RiverRight == Width \div 2

\* Arena defines neither is_river_column nor is_tower_cell, so the two hasattr
\* branches of place_unit_for_player are never taken.
CanPlace(g, owner, r, c) ==
  /\ InBounds(r, c)
  /\ Get(g, r, c) = NoTile
  /\ IF owner = P1 THEN ~(c >= RiverLeft) ELSE ~(c <= RiverRight)

\* place_unit_for_player without the test for an empty cell.
PlaceUnitForPlayerNoEmptyTest(g, owner, r, c, unit) ==
  IF InBounds(r, c) /\ (IF owner = P1 THEN ~(c >= RiverLeft) ELSE ~(c <= RiverRight))
  THEN [ok |-> TRUE, grid |-> SetCell(g, r, c, [unit EXCEPT !.owner = owner]),
        unit |-> [unit EXCEPT !.owner = owner]]
  ELSE [ok |-> FALSE, grid |-> g, unit |-> unit]

\* The result is the returned bool, the grid after the call and the passed unit
\* dict after the call (owner is stored in it only after all the checks).
PlaceUnitForPlayer(g, owner, r, c, unit) ==
  IF CanPlace(g, owner, r, c)
  THEN [ok |-> TRUE, grid |-> SetCell(g, r, c, [unit EXCEPT !.owner = owner]),
        unit |-> [unit EXCEPT !.owner = owner]]
  ELSE [ok |-> FALSE, grid |-> g, unit |-> unit]

\* rules.py: the river columns, the side test and the deploy test.  The arena
\* has no river_cols attribute, so river_cols falls back to width // 2 - 1 and
\* width // 2; it has no is_river_column and no is_tower_cell method, so the
\* river test is the module's own and the tower test is skipped.
IsRiverColumn(c) == c = RiverLeft \/ c = RiverRight

IsOnOwnerSide(owner, c) ==
  IF owner = P1 THEN c < RiverLeft
  ELSE IF owner = P2 THEN c > RiverRight
  ELSE FALSE

IsValidDeploy(g, owner, r, c) ==
  /\ InBounds(r, c)
  /\ Get(g, r, c) = NoTile
  /\ ~IsRiverColumn(c)
  /\ IsOnOwnerSide(owner, c)

\* ------------------------------------------------------------------------
\* Match: movement and combat.  A scan state s is [grid, towers, new]: the
\* arena's grid (the old grid, which attack_unit and damage_tower write to
\* during the scan), the tower table and new_grid.
\* ------------------------------------------------------------------------
\* target["hp"] -= damage acts on the dict object: every reference to it, in
\* the old grid and in new_grid, sees the new hp.
SetHpById(g, r, id, hp) ==
  [g EXCEPT ![r] = [c \in Cols |->
     IF IsUnitTile(g[r][c]) /\ g[r][c].id = id THEN [g[r][c] EXCEPT !.hp = hp] ELSE g[r][c]]]

AttackUnit(s, attacker, r, c) ==
  LET target == s.grid[r][c]
      hp == target.hp - attacker.damage
      old1 == SetHpById(s.grid, r, target.id, hp)
      new1 == SetHpById(s.new, r, target.id, hp)
  IN IF target = NoTile THEN s
     ELSE [s EXCEPT !.grid = IF hp <= 0 THEN SetCell(old1, r, c, NoTile) ELSE old1,
                    !.new = new1]

AttackTower(s, attacker, tile) ==
  LET tw1 == IF tile.name = "king"
             THEN [s.towers EXCEPT ![tile.owner]["king"].active = TRUE]
             ELSE s.towers
      a == DamageTower([grid |-> s.grid, towers |-> tw1], tile.owner, tile.name, attacker.damage)
  IN [s EXCEPT !.grid = a.grid, !.towers = a.towers]

\* A scan step that advances a unit by its speed.
StepCellBySpeed(s, r, c) ==
  LET tile == s.grid[r][c] IN
  IF tile = NoTile THEN s
  ELSE IF IsTowerTile(tile) THEN [s EXCEPT !.new[r][c] = tile]
  ELSE
    LET tc == c + (IF tile.owner = P1 THEN 1 ELSE -1) * tile.speed IN
    IF ~InBounds(r, tc) THEN [s EXCEPT !.new[r][c] = tile]
    ELSE
      LET target == s.grid[r][tc] IN
      IF target = NoTile
      THEN IF s.new[r][tc] = NoTile
           THEN [s EXCEPT !.new[r][tc] = tile]
           ELSE [s EXCEPT !.new[r][c] = tile]
      ELSE
        LET s1 == IF IsTowerTile(target) THEN AttackTower(s, tile, target)
                  ELSE IF target.owner # tile.owner THEN AttackUnit(s, tile, r, tc)
                  ELSE s
        IN IF s1.new[r][c] = NoTile THEN [s1 EXCEPT !.new[r][c] = tile] ELSE s1

\* A scan step in which an attacker steps into the cell its attack has emptied.
StepCellAdvanceOnKill(s, r, c) ==
  LET tile == s.grid[r][c] IN
  IF tile = NoTile THEN s
  ELSE IF IsTowerTile(tile) THEN [s EXCEPT !.new[r][c] = tile]
  ELSE
    LET tc == c + (IF tile.owner = P1 THEN 1 ELSE -1) IN
    IF ~InBounds(r, tc) THEN [s EXCEPT !.new[r][c] = tile]
    ELSE
      LET target == s.grid[r][tc] IN
      IF target = NoTile
      THEN IF s.new[r][tc] = NoTile
           THEN [s EXCEPT !.new[r][tc] = tile]
           ELSE [s EXCEPT !.new[r][c] = tile]
      ELSE
        LET s1 == IF IsTowerTile(target) THEN AttackTower(s, tile, target)
                  ELSE IF target.owner # tile.owner THEN AttackUnit(s, tile, r, tc)
                  ELSE s
        IN IF s1.grid[r][tc] = NoTile
           THEN [s1 EXCEPT !.new[r][tc] = tile]
           ELSE IF s1.new[r][c] = NoTile THEN [s1 EXCEPT !.new[r][c] = tile] ELSE s1

\* A scan step that moves into an empty target cell without looking at new_grid.
StepCellOverwrite(s, r, c) ==
  LET tile == s.grid[r][c] IN
  IF tile = NoTile THEN s
  ELSE IF IsTowerTile(tile) THEN [s EXCEPT !.new[r][c] = tile]
  ELSE
    LET tc == c + (IF tile.owner = P1 THEN 1 ELSE -1) IN
    IF ~InBounds(r, tc) THEN [s EXCEPT !.new[r][c] = tile]
    ELSE
      LET target == s.grid[r][tc] IN
      IF target = NoTile
      THEN [s EXCEPT !.new[r][tc] = tile]
      ELSE
        LET s1 == IF IsTowerTile(target) THEN AttackTower(s, tile, target)
                  ELSE IF target.owner # tile.owner THEN AttackUnit(s, tile, r, tc)
                  ELSE s
        IN IF s1.new[r][c] = NoTile THEN [s1 EXCEPT !.new[r][c] = tile] ELSE s1

\* One visit of the scan: the cell (r, c) of the old grid.
StepCell(s, r, c) ==
  LET tile == s.grid[r][c] IN
  IF tile = NoTile THEN s
  ELSE IF IsTowerTile(tile) THEN [s EXCEPT !.new[r][c] = tile]
  ELSE
    LET tc == c + (IF tile.owner = P1 THEN 1 ELSE -1) IN
    IF ~InBounds(r, tc) THEN [s EXCEPT !.new[r][c] = tile]
    ELSE
      LET target == s.grid[r][tc] IN
      IF target = NoTile
      THEN IF s.new[r][tc] = NoTile
           THEN [s EXCEPT !.new[r][tc] = tile]
           ELSE [s EXCEPT !.new[r][c] = tile]
      ELSE
        LET s1 == IF IsTowerTile(target) THEN AttackTower(s, tile, target)
                  ELSE IF target.owner # tile.owner THEN AttackUnit(s, tile, r, tc)
                  ELSE s
        IN IF s1.new[r][c] = NoTile THEN [s1 EXCEPT !.new[r][c] = tile] ELSE s1

\* The scan visits the cells in row-major order; each visit is evaluated before
\* the next one starts.
RECURSIVE StepRow(_, _, _)
StepRow(r, c, s) ==
  IF c = Width THEN s
  ELSE LET s1 == StepCell(s, r, c)
       IN IF DOMAIN s1.towers = Owners THEN StepRow(r, c + 1, s1) ELSE s1

RECURSIVE StepRows(_, _)
StepRows(r, s) ==
  IF r = Height THEN s
  ELSE LET s1 == IF s.grid[r] = EmptyRow THEN s ELSE StepRow(r, 0, s)
       IN IF DOMAIN s1.towers = Owners THEN StepRows(r + 1, s1) ELSE s1

\* step_units: row-major scan, then arena.grid = new_grid.
StepUnits(a) ==
  LET s == StepRows(0, [grid |-> a.grid, towers |-> a.towers, new |-> EmptyGrid])
  IN [grid |-> s.new, towers |-> s.towers]

\* ------------------------------------------------------------------------
\* movement.step_movement with the attacks of game/combat.py.  The scan state
\* is the same [grid, towers, new]; the old grid is written only by
\* damage_tower.
\* ------------------------------------------------------------------------
\* combat.attack_unit: the target is read from, and removed from, new_grid.
CombatAttackUnit(s, attacker, r, c) ==
  LET target == s.new[r][c]
      hp == target.hp - attacker.damage
      old1 == SetHpById(s.grid, r, target.id, hp)
      new1 == SetHpById(s.new, r, target.id, hp)
  IN IF ~IsUnitTile(target) \/ target.owner = attacker.owner THEN s
     ELSE [s EXCEPT !.grid = old1,
                    !.new = IF hp <= 0 THEN SetCell(new1, r, c, NoTile) ELSE new1]

\* combat.attack_tower: nothing against a tower of the attacker's owner.
CombatAttackTower(s, attacker, tile) ==
  IF tile.owner = attacker.owner THEN s
  ELSE LET a == DamageTower([grid |-> s.grid, towers |-> s.towers],
                            tile.owner, tile.name, attacker.damage)
       IN [s EXCEPT !.grid = a.grid, !.towers = a.towers]

\* _stay
Stay(s, r, c, tile) == IF s.new[r][c] = NoTile THEN [s EXCEPT !.new[r][c] = tile] ELSE s

\* One visit of the second pass: the cell (r, c) of the old grid.
MoveCell(s, r, c) ==
  LET tile == s.grid[r][c] IN
  IF tile = NoTile \/ IsTowerTile(tile) THEN s
  ELSE
    LET tc == c + (IF tile.owner = P1 THEN 1 ELSE -1) IN
    IF ~InBounds(r, tc) THEN Stay(s, r, c, tile)
    ELSE
      LET front == IF s.new[r][tc] # NoTile THEN s.new[r][tc] ELSE s.grid[r][tc] IN
      IF front = NoTile THEN [s EXCEPT !.new[r][tc] = tile]
      ELSE IF IsTowerTile(front) THEN Stay(CombatAttackTower(s, tile, front), r, c, tile)
      ELSE IF front.owner # tile.owner
      THEN LET s1 == IF s.new[r][tc] = NoTile THEN [s EXCEPT !.new[r][tc] = front] ELSE s
               s2 == CombatAttackUnit(s1, tile, r, tc)
           IN Stay(s2, r, c, tile)
      ELSE Stay(s, r, c, tile)

\* The second pass visits the cells in row-major order.
RECURSIVE MoveRow(_, _, _)
MoveRow(r, c, s) ==
  IF c = Width THEN s
  ELSE LET s1 == MoveCell(s, r, c)
       IN IF DOMAIN s1.towers = Owners THEN MoveRow(r, c + 1, s1) ELSE s1

RECURSIVE MoveRows(_, _)
MoveRows(r, s) ==
  IF r = Height THEN s
  ELSE LET s1 == IF s.grid[r] = EmptyRow THEN s ELSE MoveRow(r, 0, s)
       IN IF DOMAIN s1.towers = Owners THEN MoveRows(r + 1, s1) ELSE s1

\* step_movement: the towers are copied first, then the units are visited, then
\* arena.grid = new_grid.
StepMovement(a) ==
  LET towersOnly == [r \in Rows |-> [c \in Cols |->
                       IF IsTowerTile(a.grid[r][c]) THEN a.grid[r][c] ELSE NoTile]]
      s == MoveRows(0, [grid |-> a.grid, towers |-> a.towers, new |-> towersOnly])
  IN [grid |-> s.new, towers |-> s.towers]

\* ------------------------------------------------------------------------
\* Match: tower fire
\* ------------------------------------------------------------------------
Abs(x) == IF x < 0 THEN -x ELSE x

EnemyCells(g, o) ==
  {rc \in Rows \X Cols : IsUnitTile(g[rc[1]][rc[2]]) /\ g[rc[1]][rc[2]].owner # o}

DistTo(cells, rc) ==
  LET ds == {Abs(rc[1] - tc[1]) + Abs(rc[2] - tc[2]) : tc \in cells}
  IN CHOOSE d \in ds : \A e \in ds : d <= e

RowMajor(rc) == rc[1] * Width + rc[2]

TowerShot(a, o, s) ==
  LET t == a.towers[o][s]
      cells == {tc \in TowerCells(o, s) : InBounds(tc[1], tc[2])}
      rng == IF s = "king" THEN 7 ELSE 6
      dmg == IF s = "king" THEN 120 ELSE 90
  IN IF t.hp <= 0 \/ (s = "king" /\ ~t.active) \/ TowerCells(o, s) = {} THEN a
     ELSE LET inr == {rc \in EnemyCells(a.grid, o) : cells # {} /\ DistTo(cells, rc) <= rng}
          IN IF inr = {} THEN a
             ELSE LET rc == CHOOSE x \in inr : \A y \in inr :
                              \/ DistTo(cells, x) < DistTo(cells, y)
                              \/ DistTo(cells, x) = DistTo(cells, y) /\ RowMajor(x) <= RowMajor(y)
                      hp == a.grid[rc[1]][rc[2]].hp - dmg
                  IN [a EXCEPT !.grid[rc[1]][rc[2]] =
                        IF hp <= 0 THEN NoTile ELSE [@ EXCEPT !.hp = hp]]

RECURSIVE TowerShots(_, _)
TowerShots(i, a) ==
  IF i > Len(TowerOrder) THEN a
  ELSE TowerShots(i + 1, TowerShot(a, TowerOrder[i][1], TowerOrder[i][2]))

TowerAttacks(a) == TowerShots(1, a)

StepTurnAlways(a, act) == TowerAttacks(StepUnits(a))

StepTurn(a, act) == IF ~act THEN a ELSE TowerAttacks(StepUnits(a))

\* ------------------------------------------------------------------------
\* Player and Card
\* ------------------------------------------------------------------------
Min(x, y) == IF x <= y THEN x ELSE y

\* A cooldown table is a function on CardNames; NoEntry stands for a name that
\* is not a key of the dict.
NoEntry == -1
NoCooldowns == [n \in CardNames |-> NoEntry]

\* can_play refusing a card whose cost equals the energy.
CanPlayStrict(card, e, cd) == ~(CardTable[card].cost >= e) /\ cd[card] = NoEntry

\* can_play without the cooldown test.
CanPlayNoCooldown(card, e, cd) == ~(CardTable[card].cost > e)

CanPlay(card, e, cd) == ~(CardTable[card].cost > e) /\ cd[card] = NoEntry

ApplyCost(card, e) == e - CardTable[card].cost

\* regen_energy without the cap.
RegenEnergyNoCap(e) == e + EnergyRegen

RegenEnergy(e) == Min(MaxEnergy, e + EnergyRegen)

\* add_cooldown(card_name, turns=2); every caller uses the default.
AddCooldownTurns(cd, card, turns) == [cd EXCEPT ![card] = turns]

AddCooldown(cd, card) == AddCooldownTurns(cd, card, CooldownTurns)

\* tick_cooldowns that keeps an entry which has reached zero.
TickCooldownsKeepZero(cd) ==
  [n \in CardNames |->
    IF cd[n] = NoEntry THEN NoEntry ELSE IF cd[n] - 1 < 0 THEN NoEntry ELSE cd[n] - 1]

TickCooldowns(cd) ==
  [n \in CardNames |->
    IF cd[n] = NoEntry THEN NoEntry ELSE IF cd[n] - 1 <= 0 THEN NoEntry ELSE cd[n] - 1]

\* ------------------------------------------------------------------------
\* State
\* ------------------------------------------------------------------------
VARIABLES
  grid,        \* arena.grid
  towers,      \* arena.towers: hp and active of every tower
  active,      \* match.active
  turn_index,  \* match.turn_index
  energy,      \* Player.energy of both players
  cooldowns,   \* Player.cooldowns of both players
  lock,        \* holder of match.lock: "free", "loop" or "cmd"
  loop_pc,     \* position of the realtime_loop task
  cmd_pc,      \* position of the command task (cr_play and the AI turn it awaits)
  cmd,         \* arguments and locals of the running command
  next_id,     \* number of unit dicts placed so far (object identity)
  plays,       \* units placed so far
  steps,       \* step_turn calls made by ApiStepTurn
  overlap      \* iterations of the loop begun while the running command awaits

vars == <<grid, towers, active, turn_index, energy, cooldowns, lock,
          loop_pc, cmd_pc, cmd, next_id, plays, steps, overlap>>

NoCmd == [card |-> "", row |-> 0, col |-> 0]

\* Match.__init__ with two fresh players; the loop task is created, not yet run.
Init ==
  /\ grid = EmptyGrid
  /\ towers = InitTowers
  /\ active = TRUE
  /\ turn_index = 0
  /\ energy = [o \in Owners |-> StartEnergy]
  /\ cooldowns = [o \in Owners |-> NoCooldowns]
  /\ lock = "free"
  /\ loop_pc = "sleep"
  /\ cmd_pc = "idle"
  /\ cmd = NoCmd
  /\ next_id = 1
  /\ plays = 0
  /\ steps = 0
  /\ overlap = 0

Arena == [grid |-> grid, towers |-> towers]

\* ------------------------------------------------------------------------
\* ApiSpec: the operations called directly
\* ------------------------------------------------------------------------
ApiPlaceInputs ==
  { <<P1, "skeletons", 0, 6>>, <<P1, "skeletons", 1, 2>>, <<P1, "knight", 1, 3>>,
    <<P2, "sparky", 0, 9>>, <<P2, "sparky", 1, 13>>,
    <<P1, "knight", 0, 7>>, <<P2, "knight", 0, 8>>, <<P1, "knight", 0, 9>>,
    <<P2, "knight", 0, 6>>, <<P1, "knight", 0, 16>>, <<P1, "knight", 10, 0>> }

ApiDamageInputs ==
  { <<P1, "right", 0>>, <<P1, "right", 1450>>, <<P1, "king", 3000>>,
    <<P2, "king", 1450>>, <<P2, "king", 3000>> }

ApiUnchanged ==
  UNCHANGED <<active, turn_index, energy, cooldowns, lock, loop_pc, cmd_pc, cmd, overlap>>

ApiPlace(o, card, r, c) ==
  /\ plays < MaxUnits
  /\ LET res == PlaceUnitForPlayer(grid, o, r, c, CreateUnit(card, o, next_id))
     IN /\ grid' = res.grid
        /\ next_id' = IF res.ok THEN next_id + 1 ELSE next_id
        /\ plays' = IF res.ok THEN plays + 1 ELSE plays
  /\ UNCHANGED <<towers, steps>>
  /\ ApiUnchanged

ApiStepTurn ==
  /\ steps < MaxSteps
  /\ LET a == StepTurn(Arena, active)
     IN /\ grid' = a.grid
        /\ towers' = a.towers
  /\ steps' = steps + 1
  /\ UNCHANGED <<next_id, plays>>
  /\ ApiUnchanged

ApiSync ==
  /\ grid' = SyncTowerMarkers(grid, towers)
  /\ UNCHANGED <<towers, next_id, plays, steps>>
  /\ ApiUnchanged

ApiDamageTower(o, s, d) ==
  /\ LET a == DamageTower(Arena, o, s, d)
     IN /\ grid' = a.grid
        /\ towers' = a.towers
  /\ UNCHANGED <<next_id, plays, steps>>
  /\ ApiUnchanged

ApiNext ==
  \/ \E in \in ApiPlaceInputs : ApiPlace(in[1], in[2], in[3], in[4])
  \/ ApiStepTurn
  \/ ApiSync
  \/ \E in \in ApiDamageInputs : ApiDamageTower(in[1], in[2], in[3])

ApiSpec == Init /\ [][ApiNext]_vars

\* ------------------------------------------------------------------------
\* Properties of the arena and of a tick (ApiSpec)
\* ------------------------------------------------------------------------
KingDead(o) == towers[o]["king"].hp = 0

\* A unit of another owner stands next to the tower s of owner o and faces it.
EnemyFacing(g, o, s) ==
  \E c \in Cols :
    LET t == g[TowerRow(o, s)][c]
    IN /\ IsUnitTile(t)
       /\ t.owner # o
       /\ c + (IF t.owner = P1 THEN 1 ELSE -1) = TowerCol(o, s)

MarkerPresent(g, o, s) ==
  \E r \in Rows, c \in Cols :
    IsTowerTile(g[r][c]) /\ g[r][c].owner = o /\ g[r][c].name = s

\* C2: a tick applies no damage between entities of the same owner: a tower
\* loses HP, or a king becomes active, in a tick only if a unit of the other
\* owner stands next to it and faces it.
C2_NoFriendlyFire ==
  [][ApiStepTurn =>
       \A o \in Owners, s \in Slots :
         (\/ towers'[o][s].hp < towers[o][s].hp
          \/ towers'[o][s].active # towers[o][s].active)
           => EnemyFacing(grid, o, s)]_vars

\* C3: the grid installed at the end of a tick holds no unit tile with hp <= 0.
C3_NoDeadUnitInGrid ==
  \A r \in Rows, c \in Cols : IsUnitTile(grid[r][c]) => grid[r][c].hp > 0

\* C4: tower damage is monotone and floored: no step raises a tower's HP or
\* takes it below 0, and a damage_tower call on a tower at 0 HP changes nothing.
C4_TowerDamageMonotoneFloored ==
  [][/\ \A o \in Owners, s \in Slots :
          /\ towers'[o][s].hp <= towers[o][s].hp
          /\ towers'[o][s].hp >= 0
     /\ \A in \in ApiDamageInputs :
          (towers[in[1]][in[2]].hp = 0 /\ ApiDamageTower(in[1], in[2], in[3]))
            => (towers' = towers /\ grid' = grid)]_vars

\* A flank tower was taken to 0 by damage exceeding what it had left.
C4_Witness ==
  /\ towers[P1]["right"].hp = 0
  /\ towers[P2]["king"].hp = KingHp - 1450

\* C5: when a left or right tower is driven to 0 HP the king of the same owner
\* is active immediately afterwards, and an active king stays active.
C5_FlankDeathActivatesKing ==
  [][\A o \in Owners :
       /\ (\E s \in Flanks : towers[o][s].hp > 0 /\ towers'[o][s].hp = 0)
            => towers'[o]["king"].active
       /\ towers[o]["king"].active => towers'[o]["king"].active]_vars

\* A flank tower is dead and its king, never hit, is active.
C5_Witness ==
  /\ towers[P1]["right"].hp = 0
  /\ towers[P1]["king"].active
  /\ towers[P1]["king"].hp = KingHp

\* C6: after any damage_tower call on a king with HP > 0 that king is active.
C6_KingHitActivates ==
  [][\A in \in ApiDamageInputs :
       (/\ in[2] = "king"
        /\ towers[in[1]]["king"].hp > 0
        /\ ApiDamageTower(in[1], in[2], in[3]))
         => towers'[in[1]]["king"].active]_vars

\* C7: a tower at 0 HP stays at 0, and from the step in which a tower's HP
\* is 0 on the grid holds no marker of that tower.
C7_DeadTowerGone ==
  [][\A o \in Owners, s \in Slots :
       /\ towers[o][s].hp = 0 => towers'[o][s].hp = 0
       /\ towers'[o][s].hp = 0 => ~MarkerPresent(grid', o, s)]_vars

\* C8 as stated: check_win returns None iff both kings have HP > 0, and the
\* returned player's own king has HP > 0 while the other king has HP 0.
C8_WinnerSurvives ==
  LET w == CheckWin(towers)
  IN /\ (w = NoOwner) <=> (~KingDead(P1) /\ ~KingDead(P2))
     /\ w # NoOwner => (~KingDead(w) /\ KingDead(OpponentId(w)))

\* C8, amended: check_win returns None iff both kings have HP > 0; the king of
\* the returned player's opponent has HP 0, and the returned player's own king
\* has HP > 0 unless both kings are at 0, when player 2 is returned.
C8_WinnerOpponentDead ==
  LET w == CheckWin(towers)
  IN /\ (w = NoOwner) <=> (~KingDead(P1) /\ ~KingDead(P2))
     /\ w # NoOwner =>
          /\ KingDead(OpponentId(w))
          /\ ~KingDead(w) \/ (w = P2 /\ KingDead(P1) /\ KingDead(P2))

\* One king is dead and check_win returns the survivor.
C8_Witness ==
  /\ KingDead(P2)
  /\ ~KingDead(P1)
  /\ CheckWin(towers) = P1

\* C9: with both kings at 0 HP any_king_dead returns player 1 and check_win
\* player 2, whichever king was hit first; with one king at 0 its owner loses.
C9_TieBreak ==
  /\ (KingDead(P1) /\ KingDead(P2))
       => (AnyKingDead(towers) = P1 /\ CheckWin(towers) = P2)
  /\ \A o \in Owners :
       (KingDead(o) /\ ~KingDead(OpponentId(o)))
         => (AnyKingDead(towers) = o /\ CheckWin(towers) = OpponentId(o))

\* Both kings are at 0 HP.
C9_Witness == KingDead(P1) /\ KingDead(P2)

\* ------------------------------------------------------------------------
\* Spec: the tasks.  asyncio runs one task at a time and switches only at an
\* await, so a task takes a step only while the other one is suspended.
\* ------------------------------------------------------------------------
\* cr_play commands the human sends (card, row, col).
PlayInputs == { <<"mini_pekka", 8, 6>>, <<"knight", 0, 7>> }

\* Outcomes of the AI's random draws: the card and the cell it ends up with.
AICards == {"giant"}
AICells == { <<8, 9>> }

\* Readings of the loop's clock: whether ELIXIR_EVERY / RENDER_EVERY have passed
\* since the last regeneration / render.  The iterations modelled are at least
\* ELIXIR_EVERY apart, so the regeneration is due in each of them; the render
\* may or may not be due.
ElixirDue == {TRUE}
RenderDue == BOOLEAN

LoopAwaits == {"sleep", "send", "announce", "done", "cancelled", "failed"}
CmdAwaits == {"idle", "reject", "played", "shown", "ai_msg", "ai_shown", "win_send",
              "py_win_send"}

LoopSuspendedAlways == TRUE

LoopSuspended == loop_pc \in LoopAwaits
CmdSuspended == cmd_pc \in CmdAwaits

\* realtime_loop -----------------------------------------------------------
\* while match.active is false: the loop ends.
LoopExit ==
  /\ loop_pc = "sleep" /\ CmdSuspended
  /\ ~active
  /\ loop_pc' = "done"
  /\ UNCHANGED <<grid, towers, active, turn_index, energy, cooldowns, lock,
                 cmd_pc, cmd, next_id, plays, steps, overlap>>

\* async with match.lock: regeneration when its timer is due ...
LoopTick(elixir_due) ==
  /\ loop_pc = "sleep" /\ CmdSuspended
  /\ active
  /\ lock = "free"
  /\ cmd_pc = "idle" \/ overlap < MaxOverlap
  /\ overlap' = IF cmd_pc = "idle" THEN 0 ELSE overlap + 1
  /\ lock' = "loop"
  /\ energy' = IF elixir_due THEN [o \in Owners |-> RegenEnergy(energy[o])] ELSE energy
  /\ cooldowns' = IF elixir_due THEN [o \in Owners |-> TickCooldowns(cooldowns[o])]
                  ELSE cooldowns
  /\ loop_pc' = "step"
  /\ UNCHANGED <<grid, towers, active, turn_index, cmd_pc, cmd, next_id, plays, steps>>

\* ... then match.step_turn() ...
LoopStep ==
  /\ loop_pc = "step"
  /\ LET a == StepTurn(Arena, active)
     IN /\ grid' = a.grid
        /\ towers' = a.towers
  /\ loop_pc' = "check"
  /\ UNCHANGED <<active, turn_index, energy, cooldowns, lock, cmd_pc, cmd,
                 next_id, plays, steps, overlap>>

\* The win check with the render left inside the lock.
LoopCheckWinKeepLock ==
  /\ loop_pc = "check"
  /\ IF CheckWin(towers) # NoOwner
     THEN /\ active' = FALSE
          /\ loop_pc' = "announce"
     ELSE /\ loop_pc' = "render"
          /\ UNCHANGED active
  /\ UNCHANGED <<grid, towers, turn_index, energy, cooldowns, lock, cmd_pc, cmd,
                 next_id, plays, steps, overlap>>

\* ... then winner = match.check_win(); with a winner end_match_channel sets active
\* false and awaits the send inside the lock; otherwise the lock is released.
LoopCheckWin ==
  /\ loop_pc = "check"
  /\ IF CheckWin(towers) # NoOwner
     THEN /\ active' = FALSE
          /\ loop_pc' = "announce"
          /\ UNCHANGED lock
     ELSE /\ lock' = "free"
          /\ loop_pc' = "render"
          /\ UNCHANGED active
  /\ UNCHANGED <<grid, towers, turn_index, energy, cooldowns, cmd_pc, cmd,
                 next_id, plays, steps, overlap>>

\* the throttled render_arena_emoji (it syncs the tower markers), then the sleep.
LoopRender(render_due) ==
  /\ loop_pc = "render"
  /\ IF render_due
     THEN /\ grid' = SyncTowerMarkers(grid, towers)
          /\ loop_pc' = "send"
     ELSE /\ loop_pc' = "sleep"
          /\ UNCHANGED grid
  /\ UNCHANGED <<towers, active, turn_index, energy, cooldowns, lock, cmd_pc, cmd,
                 next_id, plays, steps, overlap>>

LoopSent ==
  /\ loop_pc = "send" /\ CmdSuspended
  /\ loop_pc' = "sleep"
  /\ UNCHANGED <<grid, towers, active, turn_index, energy, cooldowns, lock,
                 cmd_pc, cmd, next_id, plays, steps, overlap>>

LoopAnnounced ==
  /\ loop_pc = "announce" /\ CmdSuspended
  /\ loop_pc' = "done"
  /\ lock' = "free"
  /\ UNCHANGED <<grid, towers, active, turn_index, energy, cooldowns,
                 cmd_pc, cmd, next_id, plays, steps, overlap>>

\* A cancellation that lands at any point of the loop and leaves the lock as it is.
LoopCancelMidTick ==
  /\ loop_pc \in {"sleep", "send", "announce", "step", "check"} /\ CmdSuspended
  /\ loop_pc' = "cancelled"
  /\ UNCHANGED <<grid, towers, active, turn_index, energy, cooldowns, lock, cmd_pc, cmd,
                 next_id, plays, steps, overlap>>

\* The task is cancelled by whoever holds it: CancelledError is raised at the
\* await the loop is suspended in (the sleep, the render send, or the win
\* announcement inside the lock, which async with releases on the way out),
\* and the handler returns.
LoopCancel ==
  /\ loop_pc \in {"sleep", "send", "announce"} /\ CmdSuspended
  /\ loop_pc' = "cancelled"
  /\ lock' = IF loop_pc = "announce" THEN "free" ELSE lock
  /\ UNCHANGED <<grid, towers, active, turn_index, energy, cooldowns,
                 cmd_pc, cmd, next_id, plays, steps, overlap>>

\* cr_play -----------------------------------------------------------------
\* The checks before the placement; the author is the human (player 1).
PlayBegin(card, row, col) ==
  /\ cmd_pc = "idle" /\ LoopSuspended
  /\ plays < MaxPlays
  /\ IF /\ active
        /\ PlayerId(turn_index) = P1
        /\ card \in Deck(P1)
        /\ CanPlay(card, energy[P1], cooldowns[P1])
     THEN /\ cmd_pc' = "place"
          /\ cmd' = [card |-> card, row |-> row, col |-> col]
     ELSE /\ cmd_pc' = "reject"
          /\ UNCHANGED cmd
  /\ UNCHANGED <<grid, towers, active, turn_index, energy, cooldowns, lock,
                 loop_pc, next_id, plays, steps, overlap>>

\* cr_play paying for the card whatever the placement returned.
PlayPlaceThenPay ==
  /\ cmd_pc = "place"
  /\ LET o == PlayerId(turn_index)
         res == PlaceUnitForPlayer(grid, o, cmd.row, cmd.col, CreateUnit(cmd.card, o, next_id))
     IN /\ grid' = res.grid
        /\ next_id' = IF res.ok THEN next_id + 1 ELSE next_id
        /\ plays' = IF res.ok THEN plays + 1 ELSE plays
        /\ cmd_pc' = "pay"
  /\ UNCHANGED <<towers, active, turn_index, energy, cooldowns, lock, loop_pc, cmd, steps, overlap>>

\* match.place_unit_for_player, and the return after a refused placement.
PlayPlace ==
  /\ cmd_pc = "place"
  /\ LET o == PlayerId(turn_index)
         res == PlaceUnitForPlayer(grid, o, cmd.row, cmd.col, CreateUnit(cmd.card, o, next_id))
     IN /\ grid' = res.grid
        /\ next_id' = IF res.ok THEN next_id + 1 ELSE next_id
        /\ plays' = IF res.ok THEN plays + 1 ELSE plays
        /\ cmd_pc' = IF res.ok THEN "pay" ELSE "reject"
  /\ UNCHANGED <<towers, active, turn_index, energy, cooldowns, lock, loop_pc, cmd, steps, overlap>>

\* card.apply_cost(player); player.add_cooldown(card.name); then the first send.
PlayPay ==
  /\ cmd_pc = "pay"
  /\ LET o == PlayerId(turn_index)
     IN /\ energy' = [energy EXCEPT ![o] = ApplyCost(cmd.card, @)]
        /\ cooldowns' = [cooldowns EXCEPT ![o] = AddCooldown(@, cmd.card)]
  /\ cmd_pc' = "played"
  /\ UNCHANGED <<grid, towers, active, turn_index, lock, loop_pc, cmd, next_id, plays, steps, overlap>>

PlayRender ==
  /\ cmd_pc = "played" /\ LoopSuspended
  /\ grid' = SyncTowerMarkers(grid, towers)
  /\ cmd_pc' = "shown"
  /\ UNCHANGED <<towers, active, turn_index, energy, cooldowns, lock, loop_pc, cmd,
                 next_id, plays, steps, overlap>>

\* end_match: nothing when the match is already inactive, else active = False
\* and the send of the win message (match.loop_task is None: nothing to cancel).
\* Otherwise next_turn, and the AI turn when the next player is the AI.
PlayCheckWin ==
  /\ cmd_pc = "shown" /\ LoopSuspended
  /\ IF CheckWin(towers) # NoOwner
     THEN /\ active' = FALSE
          /\ cmd_pc' = IF active THEN "win_send" ELSE "idle"
          /\ UNCHANGED turn_index
     ELSE /\ turn_index' = 1 - turn_index
          /\ cmd_pc' = IF PlayerId(1 - turn_index) = P2 THEN "ai_start" ELSE "idle"
          /\ UNCHANGED active
  /\ overlap' = IF cmd_pc' = "idle" THEN 0 ELSE overlap
  /\ UNCHANGED <<grid, towers, energy, cooldowns, lock, loop_pc, cmd, next_id, plays, steps>>

PlayRejected ==
  /\ cmd_pc = "reject" /\ LoopSuspended
  /\ cmd_pc' = "idle"
  /\ cmd' = NoCmd
  /\ overlap' = 0
  /\ UNCHANGED <<grid, towers, active, turn_index, energy, cooldowns, lock,
                 loop_pc, next_id, plays, steps>>

\* process_ai_turn (game/match.py) -------------------------------------------
AiZone(o) ==
  IF o = P1 THEN Rows \X (0..(RiverLeft - 2)) ELSE Rows \X ((RiverRight + 1)..(Width - 1))

Playable(o) == {c \in Deck(o) : CanPlay(c, energy[o], cooldowns[o])}

AiPick(S) == IF S \cap AICards # {} THEN S \cap AICards ELSE S

AiFree(o) ==
  {rc \in AICells \cap AiZone(o) :
     Get(grid, rc[1], rc[2]) = NoTile /\ CanPlace(grid, o, rc[1], rc[2])}

\* if not match.active: return.  Otherwise no playable card, or all draws hit
\* occupied cells: a message and no placement.
AiNoPlacement ==
  /\ cmd_pc = "ai_start"
  /\ LET o == PlayerId(turn_index)
     IN IF ~active
        THEN /\ cmd_pc' = "idle"
             /\ cmd' = NoCmd
             /\ overlap' = 0
        ELSE /\ \/ Playable(o) = {}
                \/ /\ AiFree(o) = {}
                   /\ \E rc \in AiZone(o) : Get(grid, rc[1], rc[2]) # NoTile
             /\ cmd_pc' = "ai_msg"
             /\ UNCHANGED <<cmd, overlap>>
  /\ UNCHANGED <<grid, towers, active, turn_index, energy, cooldowns, lock,
                 loop_pc, next_id, plays, steps>>

AiPlace(card, r, c) ==
  /\ cmd_pc = "ai_start"
  /\ active
  /\ LET o == PlayerId(turn_index)
         res == PlaceUnitForPlayer(grid, o, r, c, CreateUnit(card, o, next_id))
     IN /\ card \in AiPick(Playable(o))
        /\ <<r, c>> \in AiFree(o)
        /\ res.ok
        /\ grid' = res.grid
  /\ next_id' = next_id + 1
  /\ cmd' = [card |-> card, row |-> r, col |-> c]
  /\ cmd_pc' = "ai_pay"
  /\ UNCHANGED <<towers, active, turn_index, energy, cooldowns, lock, loop_pc, plays, steps, overlap>>

AiPay ==
  /\ cmd_pc = "ai_pay"
  /\ LET o == PlayerId(turn_index)
     IN /\ energy' = [energy EXCEPT ![o] = ApplyCost(cmd.card, @)]
        /\ cooldowns' = [cooldowns EXCEPT ![o] = AddCooldown(@, cmd.card)]
  /\ cmd_pc' = "ai_msg"
  /\ UNCHANGED <<grid, towers, active, turn_index, lock, loop_pc, cmd, next_id, plays, steps, overlap>>

\* finish_turn: match.step_turn() ...
AiStep ==
  /\ cmd_pc = "ai_msg" /\ LoopSuspended
  /\ LET a == StepTurn(Arena, active)
     IN /\ grid' = a.grid
        /\ towers' = a.towers
  /\ cmd_pc' = "ai_render"
  /\ UNCHANGED <<active, turn_index, energy, cooldowns, lock, loop_pc, cmd, next_id, plays, steps, overlap>>

\* ... await ctx.send(render_arena_emoji(match.arena, match)) ...
AiRender ==
  /\ cmd_pc = "ai_render"
  /\ grid' = SyncTowerMarkers(grid, towers)
  /\ cmd_pc' = "ai_shown"
  /\ UNCHANGED <<towers, active, turn_index, energy, cooldowns, lock, loop_pc, cmd,
                 next_id, plays, steps, overlap>>

\* finish_turn ending the match whether or not check_win names a winner.
AiCheckWinNoGuard ==
  /\ cmd_pc = "ai_shown" /\ LoopSuspended
  /\ active' = FALSE
  /\ cmd_pc' = IF active THEN "win_send" ELSE "idle"
  /\ cmd' = IF cmd_pc' = "idle" THEN NoCmd ELSE cmd
  /\ overlap' = IF cmd_pc' = "idle" THEN 0 ELSE overlap
  /\ UNCHANGED <<grid, towers, turn_index, energy, cooldowns, lock, loop_pc,
                 next_id, plays, steps>>

\* ... winner = match.check_win(): end_match, or next_turn.
AiCheckWin ==
  /\ cmd_pc = "ai_shown" /\ LoopSuspended
  /\ IF CheckWin(towers) # NoOwner
     THEN /\ active' = FALSE
          /\ cmd_pc' = IF active THEN "win_send" ELSE "idle"
          /\ UNCHANGED turn_index
     ELSE /\ turn_index' = 1 - turn_index
          /\ cmd_pc' = "idle"
          /\ UNCHANGED active
  /\ cmd' = IF cmd_pc' = "idle" THEN NoCmd ELSE cmd
  /\ overlap' = IF cmd_pc' = "idle" THEN 0 ELSE overlap
  /\ UNCHANGED <<grid, towers, energy, cooldowns, lock, loop_pc, next_id, plays, steps>>

CmdWinSent ==
  /\ cmd_pc = "win_send" /\ LoopSuspended
  /\ cmd_pc' = "idle"
  /\ cmd' = NoCmd
  /\ overlap' = 0
  /\ UNCHANGED <<grid, towers, active, turn_index, energy, cooldowns, lock,
                 loop_pc, next_id, plays, steps>>

Next ==
  \/ LoopExit
  \/ \E due \in ElixirDue : LoopTick(due)
  \/ LoopStep
  \/ LoopCheckWin
  \/ \E due \in RenderDue : LoopRender(due)
  \/ LoopSent
  \/ LoopAnnounced
  \/ LoopCancel
  \/ \E in \in PlayInputs : PlayBegin(in[1], in[2], in[3])
  \/ PlayPlace
  \/ PlayPay
  \/ PlayRender
  \/ PlayCheckWin
  \/ PlayRejected
  \/ AiNoPlacement
  \/ \E card \in CardNames, rc \in AICells : AiPlace(card, rc[1], rc[2])
  \/ AiPay
  \/ AiStep
  \/ AiRender
  \/ AiCheckWin
  \/ CmdWinSent

Spec == Init /\ [][Next]_vars

\* ------------------------------------------------------------------------
\* Properties of the tasks (Spec)
\* ------------------------------------------------------------------------
\* C1: every mutation of the grid, the tower table, the energy or the cooldowns
\* is made by a task holding match.lock: the step of the loop that changes them
\* holds the lock when it ends, a step of the command handler when it starts.
C1_MutationsUnderLock ==
  [][<<grid, towers, energy, cooldowns>>' # <<grid, towers, energy, cooldowns>> =>
       \/ loop_pc' # loop_pc /\ lock' = "loop"
       \/ cmd_pc' # cmd_pc /\ lock = "cmd"]_vars

\* C10: wherever another task can run, a dead king means the match is inactive.
C10_InactiveWhenKingDead ==
  (LoopSuspended /\ CmdSuspended /\ (KingDead(P1) \/ KingDead(P2))) => ~active


\* C11: match.active only ever changes from true to false, it changes only in
\* a state where any_king_dead() names an owner, and the winner check_win
\* names there is the opponent of that owner.
C11_ActiveOneWay ==
  [][active' # active =>
       /\ active /\ ~active'
       /\ AnyKingDead(towers) # NoOwner
       /\ CheckWin(towers) = OpponentId(AnyKingDead(towers))]_vars

\* The match has ended with player 2's king dead.
C11_Witness == ~active /\ KingDead(P2) /\ ~KingDead(P1)

\* C12: once match.active is false no iteration of realtime_loop changes the
\* grid, the tower table, the energy or the cooldowns, and the step_turn that
\* finish_turn calls changes neither grid nor towers.
C12_NoSimulationAfterEnd ==
  [][~active =>
       /\ loop_pc' # loop_pc => UNCHANGED <<grid, towers, energy, cooldowns>>
       /\ (cmd_pc = "ai_msg" /\ cmd_pc' = "ai_render") => UNCHANGED <<grid, towers>>]_vars

\* finish_turn has called step_turn on a match the loop had already ended.
C12_Witness ==
  /\ ~active
  /\ cmd_pc = "ai_render"
  /\ loop_pc \in {"announce", "done"}

\* C13: the end_match call that ends an active match also stops the loop
\* task, and an end_match call on a match already ended changes no state and
\* sends nothing.
C13_EndMatchStopsLoop ==
  [][(cmd_pc \in {"shown", "ai_shown"} /\ cmd_pc' # cmd_pc /\ CheckWin(towers) # NoOwner) =>
       IF active
       THEN ~active' /\ loop_pc' \in {"done", "cancelled"}
       ELSE /\ cmd_pc' # "win_send"
            /\ UNCHANGED <<grid, towers, active, turn_index, energy, cooldowns, lock, loop_pc>>]_vars

\* C14: inside one lock acquisition of the loop the regeneration is followed
\* by step_turn and step_turn by check_win, with the lock held throughout and
\* no step of a player command (placement, cost, cooldown) in between.
C14_TickOrder ==
  [][/\ loop_pc' = "step" => (loop_pc = "sleep" /\ lock = "free" /\ lock' = "loop")
     /\ loop_pc = "step" =>
          (loop_pc' = "check" /\ lock' = "loop" /\ UNCHANGED <<cmd_pc, energy, cooldowns>>)
     /\ loop_pc = "check" =>
          /\ loop_pc' \in {"announce", "render"}
          /\ lock = "loop"
          /\ UNCHANGED <<cmd_pc, grid, towers, energy, cooldowns>>]_vars

\* The loop is between step_turn and check_win while a command that has
\* placed and paid is waiting for its send.
C14_Witness ==
  /\ loop_pc = "check"
  /\ lock = "loop"
  /\ cmd_pc = "played"

\* C15: while realtime_loop renders the board and awaits the send of it, the
\* lock it took for the tick has been released.
C15_RenderOutsideLock ==
  loop_pc \in {"render", "send"} => lock = "free"

\* The loop is awaiting the send of a board that holds a unit.
C15_Witness ==
  /\ loop_pc = "send"
  /\ \E r \in Rows, c \in Cols : IsUnitTile(grid[r][c])

\* C17: the loop is cancelled only while it waits at an await (the sleep or the
\* lock acquire, the render send, the win-announcement send), never between the
\* regeneration, step_turn and check_win of one tick; the cancellation itself
\* changes neither the grid nor the tower table, leaves the lock released, and
\* a cancelled loop takes no further step (so it runs no step_turn).
C17_CancelBetweenTicks ==
  [][/\ (loop_pc' = "cancelled" /\ loop_pc # "cancelled") =>
          /\ loop_pc \in {"sleep", "send", "announce"}
          /\ UNCHANGED <<grid, towers, energy, cooldowns>>
          /\ lock' # "loop"
     /\ loop_pc = "cancelled" => (loop_pc' = "cancelled" /\ lock # "loop")]_vars

C17_Witness ==
  /\ loop_pc = "cancelled" /\ ~active /\ lock = "free"
  /\ \E r \in Rows, c \in Cols : IsUnitTile(grid[r][c])

\* C18: in every reachable state, for every owner and cell, a cell in a river
\* column, a cell holding a living tower of the tower table, and a cell on the
\* opponent's side of the river are all refused by is_valid_deploy and by the
\* placement check of place_unit_for_player.
LivingTowerCell(r, c) ==
  \E o \in Owners, s \in Slots :
    towers[o][s].hp > 0 /\ TowerRow(o, s) = r /\ TowerCol(o, s) = c

OpponentSide(owner, c) == IF owner = P1 THEN c > RiverRight ELSE c < RiverLeft

C18_DeployLegality ==
  \A o \in Owners, r \in Rows, c \in Cols :
    (IsRiverColumn(c) \/ LivingTowerCell(r, c) \/ OpponentSide(o, c)) =>
      /\ ~IsValidDeploy(grid, o, r, c)
      /\ ~CanPlace(grid, o, r, c)

\* C19: in every reachable arena state, place_unit_for_player called on a river
\* column, on an occupied cell, on the opponent's side or out of bounds returns
\* false and leaves the grid and the passed unit template as they were (the
\* tower table is not an output of the call at all).
PlaceProbeRows == {-1, 0, 1, 2, Height}
PlaceProbeCols == -1 .. Width
ProbeUnit == CreateUnit("knight", NoOwner, 0)

Refused(o, r, c) ==
  \/ ~InBounds(r, c)
  \/ IsRiverColumn(c)
  \/ Get(grid, r, c) # NoTile
  \/ OpponentSide(o, c)

C19_RejectedPlacementNoChange ==
  \A o \in Owners, r \in PlaceProbeRows, c \in PlaceProbeCols :
    Refused(o, r, c) =>
      LET res == PlaceUnitForPlayer(grid, o, r, c, ProbeUnit)
      IN ~res.ok /\ res.grid = grid /\ res.unit = ProbeUnit

\* A placement by the cell's own side is refused only because a unit stands there.
C19_Witness ==
  \E inp \in ApiPlaceInputs :
    /\ plays < MaxUnits
    /\ IsUnitTile(Get(grid, inp[3], inp[4]))
    /\ IsOnOwnerSide(inp[1], inp[4])

\* C20: the step that calls place_unit_for_player changes no energy and no
\* cooldown; a player's energy drops or a cooldown is set only in the paying
\* step of cr_play or of the AI turn; that step is reached only from a
\* placement that returned true (the cell was placeable and now holds the
\* card's unit); and a command whose placement is refused leaves grid, energy
\* and cooldowns as they were.
Charged ==
  \E o \in Owners :
    \/ energy'[o] < energy[o]
    \/ \E card \in CardNames : cooldowns'[o][card] > cooldowns[o][card]

C20_NoAutoDeduct ==
  [][/\ cmd_pc \in {"place", "ai_start"} => UNCHANGED <<energy, cooldowns>>
     /\ Charged => cmd_pc \in {"pay", "ai_pay"}
     /\ (cmd_pc' \in {"pay", "ai_pay"} /\ cmd_pc' # cmd_pc) =>
          /\ CanPlace(grid, PlayerId(turn_index), cmd'.row, cmd'.col)
          /\ grid'[cmd'.row][cmd'.col].name = cmd'.card
          /\ grid'[cmd'.row][cmd'.col].owner = PlayerId(turn_index)
     /\ (cmd_pc = "place" /\ cmd_pc' = "reject") =>
          /\ ~CanPlace(grid, PlayerId(turn_index), cmd.row, cmd.col)
          /\ UNCHANGED <<grid, towers, energy, cooldowns>>]_vars

C20_Witness ==
  /\ cmd_pc = "reject" /\ cmd # NoCmd /\ IsRiverColumn(cmd.col)
  /\ \E o \in Owners : energy[o] < StartEnergy

\* C21: in every reachable state of a match each player's energy is between 0
\* and the maximum 10.
C21_EnergyInRange == \A o \in Owners : 0 <= energy[o] /\ energy[o] <= MaxEnergy

\* A player who paid for a card has an energy that regeneration has capped.
C21_Witness ==
  \E o \in Owners :
    /\ energy[o] = MaxEnergy
    /\ \E r \in Rows, c \in Cols : IsUnitTile(grid[r][c]) /\ grid[r][c].owner = o

\* C22: a play (by cr_play or by the AI turn) places a unit only for a card
\* whose cost is at most the player's energy and which has no cooldown entry;
\* paying sets the card's cooldown entry; and an entry disappears only in the
\* loop's tick_cooldowns, so until then the card cannot be placed again.
C22_PlayRespectsCostAndCooldown ==
  [][LET o == PlayerId(turn_index)
     IN /\ (cmd_pc' \in {"pay", "ai_pay"} /\ cmd_pc' # cmd_pc) =>
             /\ CardTable[cmd'.card].cost <= energy[o]
             /\ cooldowns[o][cmd'.card] = NoEntry
        /\ (cmd_pc \in {"pay", "ai_pay"} /\ cmd_pc' # cmd_pc) =>
             cooldowns'[o][cmd.card] = CooldownTurns
        /\ \A q \in Owners, card \in CardNames :
             (cooldowns[q][card] # NoEntry /\ cooldowns'[q][card] = NoEntry) =>
               (loop_pc = "sleep" /\ loop_pc' = "step")]_vars

\* The human's second mini_pekka is refused before any placement although the
\* energy covers its cost: the card is still on cooldown.  (cmd records no
\* accepted card, so the refusal came from the checks before the placement.)
C22_Witness ==
  /\ cmd_pc = "reject" /\ active /\ PlayerId(turn_index) = P1
  /\ cmd = NoCmd
  /\ cooldowns[P1]["mini_pekka"] # NoEntry
  /\ energy[P1] >= CardTable["mini_pekka"].cost

\* C26: in every step_turn, each tower with hp > 0 (a king only when active)
\* that has an enemy unit within Manhattan distance 6 (flank) or 7 (king) after
\* the movement step shoots: at least one of those units is hit or removed.
InTowerRange(g, o, s) ==
  {rc \in EnemyCells(g, o) :
     Abs(rc[1] - TowerRow(o, s)) + Abs(rc[2] - TowerCol(o, s))
       <= (IF s = "king" THEN 7 ELSE 6)}

C26_TowersFireEveryTick ==
  [][steps' = steps + 1 =>
       LET m == StepUnits(Arena)
       IN \A o \in Owners, s \in Slots :
            (/\ m.towers[o][s].hp > 0
             /\ s = "king" => m.towers[o][s].active
             /\ InTowerRange(m.grid, o, s) # {}) =>
              \E rc \in InTowerRange(m.grid, o, s) :
                grid'[rc[1]][rc[2]] # m.grid[rc[1]][rc[2]]]_vars

\* C29: in every reachable state no unit stands on a river column outside a
\* bridge row (the renderer draws the bridges on rows 2 and 9).
BridgeRows == {2, 9}

C29_RiverOnlyAtBridges ==
  \A r \in Rows, c \in Cols :
    (IsUnitTile(grid[r][c]) /\ IsRiverColumn(c)) => r \in BridgeRows

\* ------------------------------------------------------------------------
\* SiegeSpec: one unit of damage 50 (a sparky) is placed next to an enemy flank
\* tower of a fresh match, the board is rendered and step_turn is called up to
\* MaxTicks times.
\* ------------------------------------------------------------------------
SiegeInputs == { <<P1, Height - 3, 2>>, <<P2, 1, Width - 3>> }

SiegePlace(o, r, c) ==
  /\ plays = 0
  /\ LET res == PlaceUnitForPlayer(grid, o, r, c, CreateUnit("sparky", o, next_id))
     IN /\ res.ok
        /\ grid' = res.grid
  /\ next_id' = next_id + 1
  /\ plays' = plays + 1
  /\ UNCHANGED <<towers, steps>>
  /\ ApiUnchanged

SiegeRender ==
  /\ grid' = SyncTowerMarkers(grid, towers)
  /\ UNCHANGED <<towers, next_id, plays, steps>>
  /\ ApiUnchanged

SiegeStepTurn ==
  /\ steps < MaxTicks
  /\ LET a == StepTurn(Arena, active)
     IN /\ grid' = a.grid
        /\ towers' = a.towers
  /\ steps' = steps + 1
  /\ UNCHANGED <<next_id, plays>>
  /\ ApiUnchanged

SiegeNext ==
  \/ \E inp \in SiegeInputs : SiegePlace(inp[1], inp[2], inp[3])
  \/ SiegeRender
  \/ SiegeStepTurn

SiegeSpec == Init /\ [][SiegeNext]_vars

\* C28: in every tick in which a unit of damage 50 is blocked by an enemy flank
\* tower that is alive, the tower loses exactly 50 hp; and in the tick that
\* takes it to 0 (the 30th from 1500) the tower's grid cell becomes empty and
\* its owner's king becomes active, for an attacker of either player.
Facing(g, r, c) == c + (IF g[r][c].owner = P1 THEN 1 ELSE -1)

C28_FlankSiege ==
  [][steps' = steps + 1 =>
       \A o \in Owners, s \in Flanks, c \in Cols :
         LET r == TowerRow(o, s) IN
         (/\ IsUnitTile(grid[r][c]) /\ grid[r][c].owner # o /\ grid[r][c].damage = 50
          /\ Facing(grid, r, c) = TowerCol(o, s)
          /\ IsTowerTile(grid[r][TowerCol(o, s)])
          /\ towers[o][s].hp > 0) =>
           /\ towers'[o][s].hp = towers[o][s].hp - 50
           /\ towers'[o][s].hp = 0 =>
                /\ grid'[r][TowerCol(o, s)] = NoTile
                /\ towers'[o]["king"].active]_vars

\* C31: a unit that attacks in a tick (its destination holds an enemy unit or a
\* tower marker when the scan reaches it) is in the same cell after the tick,
\* also when the attack killed the unit or destroyed the tower.  A player-1
\* unit is always scanned before its target; a player-2 unit attacks unless
\* the player-1 unit in front killed it first, or a player-1 unit on the other
\* side of the tower destroyed the tower first.
HasTarget(r, c) ==
  /\ IsUnitTile(grid[r][c])
  /\ InBounds(r, Facing(grid, r, c))
  /\ LET t == grid[r][Facing(grid, r, c)]
     IN IsTowerTile(t) \/ (IsUnitTile(t) /\ t.owner # grid[r][c].owner)

SureAttacker(r, c) ==
  LET u == grid[r][c]
      d == Facing(grid, r, c)
      t == grid[r][d]
  IN \/ u.owner = P1
     \/ IsUnitTile(t) /\ u.hp - t.damage > 0
     \/ IsTowerTile(t) /\ ~(InBounds(r, d - 1) /\ IsUnitTile(grid[r][d - 1])
                              /\ grid[r][d - 1].owner = P1)

C31_AttackerHoldsPosition ==
  [][steps' = steps + 1 =>
       \A r \in Rows, c \in Cols :
         HasTarget(r, c) =>
           /\ SureAttacker(r, c) =>
                (IsUnitTile(grid'[r][c]) /\ grid'[r][c].id = grid[r][c].id)
           /\ \A c2 \in Cols \ {c} :
                (IsUnitTile(grid'[r][c2]) /\ grid'[r][c2].id = grid[r][c].id) =>
                  /\ ~SureAttacker(r, c)
                  /\ c2 = Facing(grid, r, c)]_vars

\* The sparky has been hit by the skeletons in front of it, has killed them
\* with its own attack in the same tick, and still stands on its cell.
C31_Witness ==
  /\ IsUnitTile(grid[0][8]) /\ grid[0][8].name = "sparky" /\ grid[0][8].hp = 115
  /\ IsUnitTile(grid[0][7]) /\ grid[0][7].name = "skeletons" /\ grid[0][7].hp <= 0

\* C32: in every reachable state the tower marker sync gives a grid that has a
\* tower marker at exactly the cells of the towers whose table hp is > 0, each
\* with its tower's owner, name and current table hp, and a second sync leaves
\* that grid as it is.
C32_SyncExactAndIdempotent ==
  LET g == SyncTowerMarkers(grid, towers)
  IN /\ \A r \in Rows, c \in Cols : IsTowerTile(g[r][c]) <=> LivingTowerCell(r, c)
     /\ \A o \in Owners, sl \in Slots :
          towers[o][sl].hp > 0 =>
            g[TowerRow(o, sl)][TowerCol(o, sl)] = TowerMarker(towers, o, sl)
     /\ SyncTowerMarkers(g, towers) = g

\* A synced grid with a dead tower (no marker) and a damaged one (its marker
\* shows the current hp).
C32_Witness ==
  /\ grid = SyncTowerMarkers(grid, towers)
  /\ \E o \in Owners, sl \in Slots : towers[o][sl].hp = 0
  /\ \E o \in Owners, sl \in Slots :
       /\ towers[o][sl].hp > 0 /\ towers[o][sl].hp < FlankHp
       /\ grid[TowerRow(o, sl)][TowerCol(o, sl)].hp = towers[o][sl].hp

\* C33: a movement step neither loses nor duplicates units.  Every unit of the
\* grid before the step is in at most one cell after it, it is in no cell only
\* if an enemy facing it killed it during the step, and the step brings no
\* unit into the grid that was not there before.  The step taken is
\* step_units; step_movement, applied to the same grid, does the same.
UnitIds(g) == {g[r][c].id : <<r, c>> \in {rc \in Rows \X Cols : IsUnitTile(g[rc[1]][rc[2]])}}

CellsOf(g, id) == {rc \in Rows \X Cols : IsUnitTile(g[rc[1]][rc[2]]) /\ g[rc[1]][rc[2]].id = id}

\* The unit at (r, c) is hit by the enemy unit it faces and its hp falls to 0
\* or below; a player-1 unit is visited first and is only hit back if its
\* own attack did not kill.
Slain(r, c) ==
  LET u == grid[r][c]
      e == Facing(grid, r, c)
  IN /\ InBounds(r, e)
     /\ IsUnitTile(grid[r][e])
     /\ grid[r][e].owner # u.owner
     /\ u.hp - grid[r][e].damage <= 0
     /\ u.owner = P1 => grid[r][e].hp - u.damage > 0

\* step_movement on the same grid: the old grid keeps every unit, with the hp
\* the scan has left it, so a unit that is in no cell of the new grid must have
\* hp 0 or below there.
MoveScanned ==
  MoveRows(0, [grid |-> grid, towers |-> towers,
               new |-> [r \in Rows |-> [c \in Cols |->
                          IF IsTowerTile(grid[r][c]) THEN grid[r][c] ELSE NoTile]]])

MovementConservesUnits ==
  /\ \A r \in Rows : MoveScanned.new[r] = StepMovement(Arena).grid[r]
  /\ UnitIds(MoveScanned.new) \subseteq UnitIds(grid)
  /\ \A rc \in Rows \X Cols :
       IsUnitTile(grid[rc[1]][rc[2]]) =>
         /\ Cardinality(CellsOf(MoveScanned.new, grid[rc[1]][rc[2]].id)) <= 1
         /\ CellsOf(MoveScanned.new, grid[rc[1]][rc[2]].id) = {} =>
              /\ IsUnitTile(MoveScanned.grid[rc[1]][rc[2]])
              /\ MoveScanned.grid[rc[1]][rc[2]].hp <= 0

C33_StepConservesUnits ==
  [][steps' = steps + 1 =>
       /\ MovementConservesUnits
       /\ UnitIds(grid') \subseteq UnitIds(grid)
       /\ \A rc \in Rows \X Cols :
            IsUnitTile(grid[rc[1]][rc[2]]) =>
              LET id == grid[rc[1]][rc[2]].id
              IN /\ CellsOf(grid, id) = {rc}
                 /\ Cardinality(CellsOf(grid', id)) <= 1
                 /\ CellsOf(grid', id) = {} => Slain(rc[1], rc[2])]_vars

\* Two units of different owners with one empty cell between them: both head
\* for that cell and, the step taken, one of them stands in it.
C33_Witness ==
  /\ steps = MaxSteps
  /\ IsUnitTile(grid[0][8]) /\ grid[0][8].owner = P1
  /\ IsUnitTile(grid[0][9]) /\ grid[0][9].owner = P2

\* C34: in every reachable arena state, for every cell and every owner id,
\* those of the two players and an id that belongs to neither,
\* place_unit_for_player succeeds exactly when is_valid_deploy is true.
Stranger == 3

OwnerIds == Owners \cup {Stranger}

C34_PlacementOneAuthority ==
  \A o \in OwnerIds, r \in PlaceProbeRows, c \in PlaceProbeCols :
    PlaceUnitForPlayer(grid, o, r, c, ProbeUnit).ok <=> IsValidDeploy(grid, o, r, c)

\* C35: in every state reachable in a match, the tower marker sync run by the
\* renderer leaves every unit tile in its cell with the same fields.
C35_RenderKeepsUnits ==
  \A r \in Rows, c \in Cols :
    IsUnitTile(grid[r][c]) => SyncTowerMarkers(grid, towers)[r][c] = grid[r][c]

\* C39: for every grid and tower table, step_units and step_movement give the
\* same next grid (the units' hp included) and the same tower table (the
\* towers' hp and the kings' active flags).
C39_MovementInterchangeable ==
  LET u == StepUnits(Arena)
      m == StepMovement(Arena)
  IN /\ u.towers = m.towers
     /\ \A r \in Rows : u.grid[r] = m.grid[r]

\* ------------------------------------------------------------------------
\* MarchSpec: a prince (speed 2) of player 1 and a knight of player 2 are
\* placed on row 0 of a fresh match and step_turn is called up to MaxMarch
\* times; the board is never rendered, so no tower marker is on the grid.
\* ------------------------------------------------------------------------
MarchInputs == { <<P1, "prince", 0, 6>>, <<P2, "knight", 0, 9>> }

MarchPlace(o, card, r, c) ==
  /\ plays < MaxUnits
  /\ LET res == PlaceUnitForPlayer(grid, o, r, c, CreateUnit(card, o, next_id))
     IN /\ grid' = res.grid
        /\ next_id' = IF res.ok THEN next_id + 1 ELSE next_id
        /\ plays' = IF res.ok THEN plays + 1 ELSE plays
  /\ UNCHANGED <<towers, steps>>
  /\ ApiUnchanged

MarchStepTurn ==
  /\ steps < MaxMarch
  /\ LET a == StepTurn(Arena, active)
     IN /\ grid' = a.grid
        /\ towers' = a.towers
  /\ steps' = steps + 1
  /\ UNCHANGED <<next_id, plays>>
  /\ ApiUnchanged

MarchNext ==
  \/ \E inp \in MarchInputs : MarchPlace(inp[1], inp[2], inp[3], inp[4])
  \/ MarchStepTurn

MarchSpec == Init /\ [][MarchNext]_vars

\* C30: in one movement step a unit whose destination (same row, one column
\* towards the enemy) is in bounds and empty moves exactly there, unless a
\* unit scanned earlier (row-major) has the same destination: then that unit
\* gets the cell and this one stays, and neither is harmed.  A unit whose
\* destination is out of bounds stays.  No unit changes row or moves more than
\* one cell, whatever its speed.
ClaimedBefore(r, c) ==
  \E c2 \in Cols :
    /\ c2 < c
    /\ IsUnitTile(grid[r][c2])
    /\ Facing(grid, r, c2) = Facing(grid, r, c)

C30_MovementStep ==
  [][steps' = steps + 1 =>
       /\ \A r \in Rows, c \in Cols :
            IsUnitTile(grid[r][c]) =>
              LET u == grid[r][c]
                  d == Facing(grid, r, c)
              IN IF ~InBounds(r, d) THEN grid'[r][c] = u
                 ELSE IF grid[r][d] # NoTile THEN TRUE
                 ELSE IF ClaimedBefore(r, c)
                      THEN /\ grid'[r][c] = u
                           /\ IsUnitTile(grid'[r][d]) /\ grid'[r][d].id # u.id
                           /\ \E c2 \in Cols : c2 < c /\ grid'[r][d] = grid[r][c2]
                      ELSE /\ grid'[r][d] = u
                           /\ grid'[r][c] = NoTile
       /\ \A r \in Rows, c \in Cols :
            IsUnitTile(grid'[r][c]) =>
              \E c0 \in {c - 1, c, c + 1} \cap Cols :
                IsUnitTile(grid[r][c0]) /\ grid[r][c0].id = grid'[r][c].id]_vars

\* The prince (speed 2) has moved one cell, and it and the knight now have the
\* same empty destination, with a tick still to come.
C30_Witness ==
  /\ steps < MaxMarch
  /\ IsUnitTile(grid[0][7]) /\ grid[0][7].speed = 2
  /\ IsUnitTile(grid[0][9]) /\ grid[0][9].owner = P2
  /\ grid[0][8] = NoTile /\ ClaimedBefore(0, 9)

\* ------------------------------------------------------------------------
\* PlayerSpec: direct calls of the Player and Card methods on the two players
\* of a fresh match.
\* ------------------------------------------------------------------------
PlayerCards == {"knight", "giant"}
CooldownInputs == 1 .. MaxTurns

PlayerUnchanged ==
  UNCHANGED <<grid, towers, active, turn_index, lock, loop_pc, cmd_pc, cmd,
              next_id, plays, steps, overlap>>

PlayerRegenEnergy(o) ==
  /\ energy' = [energy EXCEPT ![o] = RegenEnergy(@)]
  /\ UNCHANGED cooldowns
  /\ PlayerUnchanged

PlayerTickCooldowns(o) ==
  /\ cooldowns' = [cooldowns EXCEPT ![o] = TickCooldowns(@)]
  /\ UNCHANGED energy
  /\ PlayerUnchanged

PlayerAddCooldown(o, card, turns) ==
  /\ cooldowns' = [cooldowns EXCEPT ![o] = AddCooldownTurns(@, card, turns)]
  /\ UNCHANGED energy
  /\ PlayerUnchanged

\* can_play, then apply_cost and add_cooldown as every caller pairs them.
CardPlay(o, card) ==
  /\ CanPlay(card, energy[o], cooldowns[o])
  /\ energy' = [energy EXCEPT ![o] = ApplyCost(card, @)]
  /\ cooldowns' = [cooldowns EXCEPT ![o] = AddCooldown(@, card)]
  /\ PlayerUnchanged

PlayerNext ==
  \/ \E o \in Owners : PlayerRegenEnergy(o)
  \/ \E o \in Owners : PlayerTickCooldowns(o)
  \/ \E o \in Owners, card \in PlayerCards, turns \in CooldownInputs :
       PlayerAddCooldown(o, card, turns)
  \/ \E o \in Owners, card \in PlayerCards : CardPlay(o, card)

PlayerSpec == Init /\ [][PlayerNext]_vars

\* C23: regen_energy adds exactly 1, capped at 10; with energy 2 a card of
\* cost 3 cannot be played, after one regen_energy it can, and apply_cost then
\* leaves energy 0.
C23_RegenThenPlay ==
  [][\A o \in Owners :
       /\ PlayerRegenEnergy(o) =>
            energy'[o] = IF energy[o] + 1 > 10 THEN 10 ELSE energy[o] + 1
       /\ (energy[o] = 2 /\ cooldowns[o]["knight"] = NoEntry) =>
            /\ ~CardPlay(o, "knight")
            /\ PlayerRegenEnergy(o) =>
                 /\ energy'[o] = 3
                 /\ CanPlay("knight", energy'[o], cooldowns'[o])
                 /\ ApplyCost("knight", energy'[o]) = 0
       /\ (energy[o] = 3 /\ CardPlay(o, "knight")) => energy'[o] = 0]_vars

\* A player has just spent exactly 3 energy on the knight.
C23_Witness ==
  \E o \in Owners : energy[o] = 0 /\ cooldowns[o]["knight"] = CooldownTurns

\* C24: tick_cooldowns lowers every entry by exactly one and deletes exactly
\* the entries that reach zero: afterwards every remaining entry is at least 1,
\* a name without an entry still has none, the other player's table is
\* untouched, and an entry of the default 2 turns is still there after one
\* call and gone after the second.
C24_TickCooldowns ==
  [][\A o \in Owners :
       PlayerTickCooldowns(o) =>
         /\ \A n \in CardNames :
              /\ cooldowns'[o][n] =
                   IF cooldowns[o][n] = NoEntry \/ cooldowns[o][n] = 1
                   THEN NoEntry ELSE cooldowns[o][n] - 1
              /\ cooldowns'[o][n] = NoEntry \/ cooldowns'[o][n] >= 1
              /\ cooldowns[o][n] = CooldownTurns =>
                   /\ cooldowns'[o][n] = 1
                   /\ TickCooldowns(cooldowns'[o])[n] = NoEntry
         /\ \A q \in Owners \ {o} : cooldowns'[q] = cooldowns[q]]_vars

\* One entry is about to be deleted while another is about to be lowered.
C24_Witness ==
  \E o \in Owners :
    cooldowns[o]["knight"] = 1 /\ cooldowns[o]["giant"] = CooldownTurns

\* ------------------------------------------------------------------------
\* CoordSpec: coords.py.  A str is the sequence of its character codes.  cmd
\* holds the (row, col) handed to rc_to_coord and, in card, the text it made.
\* ------------------------------------------------------------------------
CoordRows == 0 .. 25
NoText == << >>
NoRc == << >>

RECURSIVE Digits(_)
\* str(n) for n >= 0.
Digits(n) == IF n < 10 THEN <<48 + n>> ELSE Digits(n \div 10) \o <<48 + (n % 10)>>

\* rc_to_coord with the column left 0-based.
RcToCoordZeroBased(row, col) == <<65 + row>> \o Digits(col)

\* f"{chr(ord('A') + row)}{col + 1}"
RcToCoord(row, col) == <<65 + row>> \o Digits(col + 1)

IsSpace(ch) == ch \in {9, 10, 11, 12, 13, 32}
IsAlpha(ch) == (65 <= ch /\ ch <= 90) \/ (97 <= ch /\ ch <= 122)
IsDigit(ch) == 48 <= ch /\ ch <= 57
Upper(ch) == IF 97 <= ch /\ ch <= 122 THEN ch - 32 ELSE ch

RECURSIVE LStrip(_)
LStrip(t) == IF t # << >> /\ IsSpace(Head(t)) THEN LStrip(Tail(t)) ELSE t

RECURSIVE RStrip(_)
RStrip(t) ==
  IF t # << >> /\ IsSpace(t[Len(t)]) THEN RStrip(SubSeq(t, 1, Len(t) - 1)) ELSE t

RECURSIVE ParseInt(_)
\* int(col_part) of a string of digits.
ParseInt(t) ==
  IF t = << >> THEN 0 ELSE 10 * ParseInt(SubSeq(t, 1, Len(t) - 1)) + (t[Len(t)] - 48)

CoordToRc(text) ==
  IF text = << >> THEN NoRc
  ELSE LET pos == [i \in 1 .. Len(RStrip(LStrip(text))) |-> Upper(RStrip(LStrip(text))[i])]
       IN IF Len(pos) < 2 THEN NoRc
          ELSE LET row_char == pos[1]
                   col_part == Tail(pos)
               IN IF ~IsAlpha(row_char) \/ \E i \in 1 .. Len(col_part) : ~IsDigit(col_part[i])
                  THEN NoRc
                  ELSE LET row == row_char - 65
                           col == ParseInt(col_part) - 1
                       IN IF row < 0 \/ col < 0 THEN NoRc ELSE <<row, col>>

CoordInit ==
  /\ grid = EmptyGrid
  /\ towers = InitTowers
  /\ active = TRUE
  /\ turn_index = 0
  /\ energy = [o \in Owners |-> StartEnergy]
  /\ cooldowns = [o \in Owners |-> NoCooldowns]
  /\ lock = "free"
  /\ loop_pc = "sleep"
  /\ cmd_pc = "idle"
  /\ cmd = [card |-> NoText, row |-> 0, col |-> 0]
  /\ next_id = 1
  /\ plays = 0
  /\ steps = 0
  /\ overlap = 0

CoordUnchanged ==
  UNCHANGED <<grid, towers, active, turn_index, energy, cooldowns, lock, loop_pc,
              cmd_pc, next_id, plays, steps, overlap>>

\* rc_to_coord(row, col)
CoordFormat(row, col) ==
  /\ cmd' = [card |-> RcToCoord(row, col), row |-> row, col |-> col]
  /\ CoordUnchanged

\* coord_to_rc of the text made last; None is recorded as (-1, -1).
CoordParse ==
  /\ cmd.card # NoText
  /\ LET rc == CoordToRc(cmd.card)
     IN cmd' = IF rc = NoRc THEN [cmd EXCEPT !.row = -1, !.col = -1]
               ELSE [cmd EXCEPT !.row = rc[1], !.col = rc[2]]
  /\ CoordUnchanged

CoordNext ==
  \/ \E row \in CoordRows, col \in Cols : CoordFormat(row, col)
  \/ CoordParse

CoordSpec == CoordInit /\ [][CoordNext]_vars

\* C25: for every row in 0..25 and every column of the board, coord_to_rc of
\* the text rc_to_coord made gives back the same (row, col).
C25_CoordRoundTrip ==
  cmd.card # NoText => CoordToRc(cmd.card) = <<cmd.row, cmd.col>>

\* Row Z and a two-digit column.
C25_Witness == cmd.card = <<90, 49, 54>> /\ cmd.row = 25 /\ cmd.col = 15

\* ------------------------------------------------------------------------
\* AiPySpec: Spec in which the AI turn may also be the one of game/ai.py.  Its
\* finish_turn differs from the one of game/match.py in the win branch: it
\* awaits the send of the win message and sets match.active to false after
\* it, without calling end_match.
\* ------------------------------------------------------------------------
AiPyCheckWin ==
  /\ cmd_pc = "ai_shown" /\ LoopSuspended
  /\ IF CheckWin(towers) # NoOwner
     THEN /\ cmd_pc' = "py_win_send"
          /\ UNCHANGED <<turn_index, cmd, overlap>>
     ELSE /\ turn_index' = 1 - turn_index
          /\ cmd_pc' = "idle"
          /\ cmd' = NoCmd
          /\ overlap' = 0
  /\ UNCHANGED <<grid, towers, active, energy, cooldowns, lock, loop_pc, next_id, plays, steps>>

AiPyWinSent ==
  /\ cmd_pc = "py_win_send" /\ LoopSuspended
  /\ active' = FALSE
  /\ cmd_pc' = "idle"
  /\ cmd' = NoCmd
  /\ overlap' = 0
  /\ UNCHANGED <<grid, towers, turn_index, energy, cooldowns, lock, loop_pc,
                 next_id, plays, steps>>

AiPyNext == Next \/ AiPyCheckWin \/ AiPyWinSent

AiPySpec == Init /\ [][AiPyNext]_vars

\* C37: at most one win message is sent per match.  A win message has been
\* sent, or is being sent, exactly when the match is inactive or the ai.py
\* finish_turn is in its send; no step starts the send of a win message in
\* such a state.
WinAnnounced == ~active \/ cmd_pc = "py_win_send"

WinSendBegins ==
  \/ loop_pc' = "announce" /\ loop_pc # "announce"
  \/ cmd_pc' \in {"win_send", "py_win_send"} /\ cmd_pc # cmd_pc'

C37_WinAnnouncedOnce == [][WinSendBegins => ~WinAnnounced]_vars

\* ------------------------------------------------------------------------
\* TurnSpec: cr_play commands of the human that overlap.  Every command is a
\* task of its own; cr_play takes no lock, so a task runs from one await to
\* the next and any other task may run in between.  cmd_pc and cmd hold the
\* position and the arguments of each task.  elixir_loop regenerates the
\* energy meanwhile; steps counts its iterations.
\* ------------------------------------------------------------------------
Tasks == 1 .. MaxPlays

TurnInputs == { <<"knight", 0, 6>>, <<"archer", 1, 6>> }

TurnInit ==
  /\ grid = EmptyGrid
  /\ towers = InitTowers
  /\ active = TRUE
  /\ turn_index = 0
  /\ energy = [o \in Owners |-> StartEnergy]
  /\ cooldowns = [o \in Owners |-> NoCooldowns]
  /\ lock = "free"
  /\ loop_pc = "done"
  /\ cmd_pc = [t \in Tasks |-> "idle"]
  /\ cmd = [t \in Tasks |-> NoCmd]
  /\ next_id = 1
  /\ plays = 0
  /\ steps = 0
  /\ overlap = 0

TurnUnchanged == UNCHANGED <<lock, loop_pc, overlap>>

\* One iteration of elixir_loop, between two of its sleeps.
TurnElixir ==
  /\ active
  /\ steps < MaxSteps
  /\ energy' = [o \in Owners |-> RegenEnergy(energy[o])]
  /\ cooldowns' = [o \in Owners |-> TickCooldowns(cooldowns[o])]
  /\ steps' = steps + 1
  /\ UNCHANGED <<grid, towers, active, turn_index, cmd_pc, cmd, next_id, plays>>
  /\ TurnUnchanged

\* cr_play up to its first await: the checks, the placement, the cost and the
\* cooldown, then the send of the "played" message; or a refusal, whose send
\* and return change nothing.
TurnPlay(t, card, row, col) ==
  /\ cmd_pc[t] = "idle"
  /\ LET res == PlaceUnitForPlayer(grid, P1, row, col, CreateUnit(card, P1, next_id))
         ok == /\ active
               /\ PlayerId(turn_index) = P1
               /\ card \in Deck(P1)
               /\ CanPlay(card, energy[P1], cooldowns[P1])
               /\ res.ok
     IN IF ok
        THEN /\ grid' = res.grid
             /\ energy' = [energy EXCEPT ![P1] = ApplyCost(card, @)]
             /\ cooldowns' = [cooldowns EXCEPT ![P1] = AddCooldown(@, card)]
             /\ next_id' = next_id + 1
             /\ plays' = plays + 1
             /\ cmd_pc' = [cmd_pc EXCEPT ![t] = "played"]
             /\ cmd' = [cmd EXCEPT ![t] = [card |-> card, row |-> row, col |-> col]]
        ELSE /\ cmd_pc' = [cmd_pc EXCEPT ![t] = "done"]
             /\ UNCHANGED <<grid, energy, cooldowns, next_id, plays, cmd>>
  /\ UNCHANGED <<towers, active, turn_index, steps>>
  /\ TurnUnchanged

\* The "played" message is out: render_arena_emoji, then the send of the board.
TurnShow(t) ==
  /\ cmd_pc[t] = "played"
  /\ grid' = SyncTowerMarkers(grid, towers)
  /\ cmd_pc' = [cmd_pc EXCEPT ![t] = "shown"]
  /\ UNCHANGED <<towers, active, turn_index, energy, cooldowns, cmd, next_id, plays, steps>>
  /\ TurnUnchanged

\* The board is out: check_win and end_match, or next_turn and, when the next
\* player is the AI, process_ai_turn up to the send of its message (a
\* placement at the drawn cell, or none).
TurnPass(t, card, rc) ==
  /\ cmd_pc[t] = "shown"
  /\ IF CheckWin(towers) # NoOwner
     THEN /\ active' = FALSE
          /\ cmd_pc' = [cmd_pc EXCEPT ![t] = IF active THEN "win_send" ELSE "done"]
          /\ UNCHANGED <<grid, turn_index, energy, cooldowns, next_id>>
     ELSE /\ turn_index' = 1 - turn_index
          /\ UNCHANGED active
          /\ LET o == PlayerId(1 - turn_index)
                 res == PlaceUnitForPlayer(grid, o, rc[1], rc[2], CreateUnit(card, o, next_id))
             IN IF o = P1 \/ ~active
                THEN /\ cmd_pc' = [cmd_pc EXCEPT ![t] = "done"]
                     /\ UNCHANGED <<grid, energy, cooldowns, next_id>>
                ELSE /\ cmd_pc' = [cmd_pc EXCEPT ![t] = "ai_msg"]
                     /\ IF card \in AiPick(Playable(o)) /\ rc \in AiFree(o) /\ res.ok
                        THEN /\ grid' = res.grid
                             /\ energy' = [energy EXCEPT ![o] = ApplyCost(card, @)]
                             /\ cooldowns' = [cooldowns EXCEPT ![o] = AddCooldown(@, card)]
                             /\ next_id' = next_id + 1
                        ELSE /\ \/ Playable(o) = {}
                                \/ /\ AiFree(o) = {}
                                   /\ \E z \in AiZone(o) : Get(grid, z[1], z[2]) # NoTile
                             /\ UNCHANGED <<grid, energy, cooldowns, next_id>>
  /\ UNCHANGED <<towers, cmd, plays, steps>>
  /\ TurnUnchanged

\* finish_turn: step_turn, render_arena_emoji, then the send of the board.
TurnAiStep(t) ==
  /\ cmd_pc[t] = "ai_msg"
  /\ LET a == StepTurn(Arena, active)
     IN /\ grid' = SyncTowerMarkers(a.grid, a.towers)
        /\ towers' = a.towers
  /\ cmd_pc' = [cmd_pc EXCEPT ![t] = "ai_shown"]
  /\ UNCHANGED <<active, turn_index, energy, cooldowns, cmd, next_id, plays, steps>>
  /\ TurnUnchanged

\* finish_turn after the send: check_win and end_match, or next_turn.
TurnAiPass(t) ==
  /\ cmd_pc[t] = "ai_shown"
  /\ IF CheckWin(towers) # NoOwner
     THEN /\ active' = FALSE
          /\ cmd_pc' = [cmd_pc EXCEPT ![t] = IF active THEN "win_send" ELSE "done"]
          /\ UNCHANGED turn_index
     ELSE /\ turn_index' = 1 - turn_index
          /\ cmd_pc' = [cmd_pc EXCEPT ![t] = "done"]
          /\ UNCHANGED active
  /\ UNCHANGED <<grid, towers, energy, cooldowns, cmd, next_id, plays, steps>>
  /\ TurnUnchanged

TurnNext ==
  \/ TurnElixir
  \/ \E t \in Tasks, in \in TurnInputs : TurnPlay(t, in[1], in[2], in[3])
  \/ \E t \in Tasks : TurnShow(t)
  \/ \E t \in Tasks, card \in AICards, rc \in AICells : TurnPass(t, card, rc)
  \/ \E t \in Tasks : TurnAiStep(t)
  \/ \E t \in Tasks : TurnAiPass(t)

TurnSpec == TurnInit /\ [][TurnNext]_vars

\* C36: two overlapping cr_play commands of one player never both stand
\* between their placement and their next_turn, and when every command has
\* returned the turn is where commands run one after the other leave it: with
\* the human.
OnePlacementPerTurn ==
  \A t1 \in Tasks : \A t2 \in Tasks \ {t1} :
    ~(cmd_pc[t1] \in {"played", "shown"} /\ cmd_pc[t2] \in {"played", "shown"})

TurnBackWithHuman == (active /\ \A t \in Tasks : cmd_pc[t] = "done") => turn_index = 0

C36_TurnExclusive == OnePlacementPerTurn /\ TurnBackWithHuman

\* ------------------------------------------------------------------------
\* BotSpec: the bot with two channels.  matches (here cmd) maps a channel to
\* its match or to nothing; players (game/storage.py) maps a user to the one
\* Player object get_player returns for that user in every channel, so energy
\* and cooldowns are per user.  grid, towers, active, turn_index and cmd_pc are
\* per channel.  The human of a channel is that channel's own user; the AI
\* user is the same in every channel.  Inside a match the tiles carry the
\* owner's seat, P1 for arena.p1_id (the human) and P2 for arena.p2_id (the
\* AI).
\* ------------------------------------------------------------------------
Channels == {"c1", "c2"}

AiUser == "ClashAI"

HumanOf(ch) == IF ch = "c1" THEN "u1" ELSE "u2"

Users == {HumanOf(ch) : ch \in Channels} \cup {AiUser}

PlayersOf(ch) == {HumanOf(ch), AiUser}

BotInputs == { <<"mini_pekka", 8, 6>> }

BotInit ==
  /\ grid = [ch \in Channels |-> EmptyGrid]
  /\ towers = [ch \in Channels |-> InitTowers]
  /\ active = [ch \in Channels |-> FALSE]
  /\ turn_index = [ch \in Channels |-> 0]
  /\ energy = [u \in Users |-> StartEnergy]
  /\ cooldowns = [u \in Users |-> NoCooldowns]
  /\ lock = "free"
  /\ loop_pc = "done"
  /\ cmd_pc = [ch \in Channels |-> "idle"]
  /\ cmd = [ch \in Channels |-> FALSE]
  /\ next_id = 1
  /\ plays = 0
  /\ steps = 0
  /\ overlap = 0

BotUnchanged == UNCHANGED <<lock, loop_pc, steps>>

\* if ctx.channel.id in matches
StartRefused(ch) == cmd[ch]

\* cr_start_ai: refused when the channel is in matches; otherwise get_player
\* for the author and for the AI user, a new Match, and the registry entry.
CrStartAi(ch) ==
  /\ IF StartRefused(ch)
     THEN UNCHANGED <<grid, towers, active, turn_index, cmd>>
     ELSE /\ grid' = [grid EXCEPT ![ch] = EmptyGrid]
          /\ towers' = [towers EXCEPT ![ch] = InitTowers]
          /\ active' = [active EXCEPT ![ch] = TRUE]
          /\ turn_index' = [turn_index EXCEPT ![ch] = 0]
          /\ cmd' = [cmd EXCEPT ![ch] = TRUE]
  /\ UNCHANGED <<energy, cooldowns, cmd_pc, next_id, plays, overlap>>
  /\ BotUnchanged

\* One iteration of the realtime loop of the match of a channel; overlap counts
\* the iterations that run while a command of the channel waits for its AI
\* turn.
BotTick(ch, render_due) ==
  /\ cmd[ch] /\ active[ch]
  /\ cmd_pc[ch] = "idle" \/ overlap < MaxOverlap
  /\ overlap' = IF cmd_pc[ch] = "idle" THEN overlap ELSE overlap + 1
  /\ LET a == StepTurn([grid |-> grid[ch], towers |-> towers[ch]], TRUE)
         win == CheckWin(a.towers) # NoOwner
     IN /\ energy' = [u \in Users |->
                        IF u \in PlayersOf(ch) THEN RegenEnergy(energy[u]) ELSE energy[u]]
        /\ cooldowns' = [u \in Users |->
                           IF u \in PlayersOf(ch) THEN TickCooldowns(cooldowns[u])
                           ELSE cooldowns[u]]
        /\ towers' = [towers EXCEPT ![ch] = a.towers]
        /\ active' = [active EXCEPT ![ch] = ~win]
        /\ grid' = [grid EXCEPT ![ch] = IF ~win /\ render_due
                                         THEN SyncTowerMarkers(a.grid, a.towers)
                                         ELSE a.grid]
  /\ UNCHANGED <<turn_index, cmd_pc, cmd, next_id, plays>>
  /\ BotUnchanged

\* cr_play of the channel's human up to the start of the AI turn.
BotPlay(ch, card, row, col) ==
  /\ cmd_pc[ch] = "idle"
  /\ plays < MaxPlays
  /\ LET h == HumanOf(ch)
         res == PlaceUnitForPlayer(grid[ch], P1, row, col, CreateUnit(card, P1, next_id))
         ok == /\ cmd[ch] /\ active[ch]
               /\ PlayerId(turn_index[ch]) = P1
               /\ card \in Deck(P1)
               /\ CanPlay(card, energy[h], cooldowns[h])
               /\ res.ok
         win == CheckWin(towers[ch]) # NoOwner
     IN IF ok
        THEN /\ grid' = [grid EXCEPT ![ch] = SyncTowerMarkers(res.grid, towers[ch])]
             /\ energy' = [energy EXCEPT ![h] = ApplyCost(card, @)]
             /\ cooldowns' = [cooldowns EXCEPT ![h] = AddCooldown(@, card)]
             /\ next_id' = next_id + 1
             /\ plays' = plays + 1
             /\ active' = [active EXCEPT ![ch] = ~win]
             /\ turn_index' = [turn_index EXCEPT ![ch] = IF win THEN @ ELSE 1 - @]
             /\ cmd_pc' = [cmd_pc EXCEPT ![ch] = IF win THEN "idle" ELSE "ai"]
        ELSE UNCHANGED <<grid, energy, cooldowns, next_id, plays, active, turn_index, cmd_pc>>
  /\ UNCHANGED <<towers, cmd, overlap>>
  /\ BotUnchanged

\* process_ai_turn of the channel: the placement at the drawn cell or none,
\* then finish_turn.
BotAiTurn(ch, card, rc) ==
  /\ cmd_pc[ch] = "ai"
  /\ cmd_pc' = [cmd_pc EXCEPT ![ch] = "idle"]
  /\ overlap' = 0
  /\ IF ~active[ch]
     THEN UNCHANGED <<grid, towers, active, turn_index, energy, cooldowns, next_id>>
     ELSE
       LET playable == {c \in Deck(P2) : CanPlay(c, energy[AiUser], cooldowns[AiUser])}
           res == PlaceUnitForPlayer(grid[ch], P2, rc[1], rc[2], CreateUnit(card, P2, next_id))
           placed == card \in AiPick(playable) /\ res.ok
           a == StepTurn([grid |-> IF placed THEN res.grid ELSE grid[ch],
                          towers |-> towers[ch]], TRUE)
           win == CheckWin(a.towers) # NoOwner
       IN /\ placed \/ playable = {} \/ ~res.ok
          /\ energy' = IF placed THEN [energy EXCEPT ![AiUser] = ApplyCost(card, @)] ELSE energy
          /\ cooldowns' = IF placed THEN [cooldowns EXCEPT ![AiUser] = AddCooldown(@, card)]
                          ELSE cooldowns
          /\ next_id' = IF placed THEN next_id + 1 ELSE next_id
          /\ grid' = [grid EXCEPT ![ch] = SyncTowerMarkers(a.grid, a.towers)]
          /\ towers' = [towers EXCEPT ![ch] = a.towers]
          /\ active' = [active EXCEPT ![ch] = ~win]
          /\ turn_index' = [turn_index EXCEPT ![ch] = IF win THEN @ ELSE 1 - @]
  /\ UNCHANGED <<cmd, plays>>
  /\ BotUnchanged

BotStep(ch) ==
  \/ \E due \in RenderDue : BotTick(ch, due)
  \/ \E in \in BotInputs : BotPlay(ch, in[1], in[2], in[3])
  \/ \E card \in AICards, rc \in AICells : BotAiTurn(ch, card, rc)

\* A match may be started in every channel; the match that is played, with
\* its loop running, is the one of the channel Busy.
Busy == "c1"

BotNext ==
  \/ \E ch \in Channels : CrStartAi(ch)
  \/ BotStep(Busy)

BotSpec == BotInit /\ [][BotNext]_vars

\* C38: a tick or a command of the match of one channel changes neither the
\* energy nor the cooldowns of a player of the match of another channel.
C38_MatchesIsolated ==
  [][\A ch \in Channels :
       BotStep(ch) =>
         \A other \in Channels \ {ch} :
           cmd[other] =>
             \A u \in PlayersOf(other) :
               energy'[u] = energy[u] /\ cooldowns'[u] = cooldowns[u]]_vars

\* C40: cr_start_ai in a channel is refused only while the channel has an
\* active match; in a channel whose match has ended it starts a new one.
C40_ChannelPlaysAgain == \A ch \in Channels : StartRefused(ch) => active[ch]

\* ------------------------------------------------------------------------
\* FaultSpec: Spec with a tick that raises.  realtime_loop catches only
\* asyncio.CancelledError, so any other exception raised by step_turn or
\* check_win leaves the coroutine through async with, which releases the lock.
\* ------------------------------------------------------------------------
LoopFail ==
  /\ loop_pc \in {"step", "check"}
  /\ loop_pc' = "failed"
  /\ lock' = "free"
  /\ UNCHANGED <<grid, towers, active, turn_index, energy, cooldowns,
                 cmd_pc, cmd, next_id, plays, steps, overlap>>

FaultNext == Next \/ LoopFail

FaultSpec == Init /\ [][FaultNext]_vars

\* C16: when the loop has stopped on an exception the match is inactive.
C16_FailedTickStopsMatch == loop_pc = "failed" => ~active

====
